---------------------------- MODULE Spec2Model ----------------------------
(***************************************************************************)
(* A model of the msforum bot: the polling loop of                         *)
(* MicrosoftForumBot.continuous_monitor (forum_bot.py), the CAPTCHA        *)
(* recognition pipeline read_captcha_from_canvas (forum_bot.py) and the    *)
(* Flask control surface api_start / api_stop with its background thread   *)
(* (app.py).                                                               *)
(*                                                                         *)
(* Three specifications share the variables:                               *)
(*   Spec         one bot running continuous_monitor against a page        *)
(*   CaptchaSpec  one call of read_captcha_from_canvas                     *)
(*   AppSpec      the control surface, its handlers and its threads        *)
(* The browser and the OCR engine are the environment: every outcome a     *)
(* driver call or an OCR call can have is a nondeterministic choice.       *)
(***************************************************************************)
EXTENDS Integers, Sequences, FiniteSets, TLC

\* ------------------------------------------------------------------ bounds
\* rows of the case table a loaded page can show
MaxRows == 3
\* iterations of the while True loop of continuous_monitor that are explored
MaxCycles == 4
\* characters of one raw OCR result
MaxRawLen == 4
\* contours findContours reports for one colour channel
MaxContours == 4
\* elements the CAPTCHA cascade matches on a page
MaxCandidates == 2
\* POST /api/start requests the control surface receives
MaxStarts == 2
\* POST /api/stop requests the control surface receives
MaxStops == 1
\* cycles of continuous_monitor followed in one background thread
MaxLoopCycles == 2
\* characters of a CAPTCHA code given to login or typed at its prompt
MaxCodeLen == 3
\* POST /run-bot requests simple_server receives
MaxRuns == 2
\* POST /stop-bot requests simple_server receives
MaxSrvStops == 1

\* ------------------------------------------------------------------ values
\* Python values of a result: an int, None (a function that falls off its
\* end returns None), or nothing yet.
PyInt(n) == [kind |-> "int", val |-> n]
NoneVal == [kind |-> "None", val |-> 0]
Unset == [kind |-> "unset", val |-> 0]
IsInt(v) == v.kind = "int"

\* The substrings the code tests an address for; an address is modelled by
\* the set of these substrings it contains.
UrlTokens == {"login", "MicrosoftForum"}
Urls == SUBSET UrlTokens
\* the Python test  tok in current_url
InUrl(tok, u) == tok \in u

\* The case table: one checkbox per row, in row order; TRUE = selected.
BoxStates == UNION {[1..n -> BOOLEAN] : n \in 0..MaxRows}

RECURSIVE CountTrue(_)
CountTrue(s) == IF s = <<>> THEN 0
                ELSE (IF Head(s) THEN 1 ELSE 0) + CountTrue(Tail(s))

RECURSIVE CountOf(_, _)
CountOf(x, s) == IF s = <<>> THEN 0
                 ELSE (IF Head(s) = x THEN 1 ELSE 0) + CountOf(x, Tail(s))

\* index of the first occurrence of x in s, 0 when there is none
RECURSIVE IndexOfFrom(_, _, _)
IndexOfFrom(x, s, i) == IF i > Len(s) THEN 0
                        ELSE IF s[i] = x THEN i ELSE IndexOfFrom(x, s, i + 1)
IndexOf(x, s) == IndexOfFrom(x, s, 1)
\* index of the last occurrence of x in s, 0 when there is none
RECURSIVE LastIndexFrom(_, _, _)
LastIndexFrom(x, s, i) == IF i = 0 THEN 0
                          ELSE IF s[i] = x THEN i ELSE LastIndexFrom(x, s, i - 1)
LastIndexOf(x, s) == LastIndexFrom(x, s, Len(s))

VARIABLES
  \* --- continuous_monitor (Spec)
  pc,               \* position of the loop
  cycle_count,      \* local cycle_count
  last_case_count,  \* local last_case_count
  url,              \* driver.current_url
  boxes,            \* the checkboxes of the page, <<>> until enumerated
  boxes0,           \* the checkboxes as this cycle enumerated them
  events,           \* what the bot did in the current cycle, in order
  sel_ret,          \* what select_first_checkbox returned in this cycle
  sel_exc,          \* where a driver call raised inside select_first_checkbox
  prev_end,         \* the last event of the cycle before this one
  prev_obs,         \* the case count the previous cycle observed, -1 = none
  cur_obs,          \* the case count this cycle observed, -1 = none yet
  last_seen,        \* the count observed last before this cycle, 0 = none
  scen,             \* leading cycles whose counts follow Scenario, -1 = left it
  scen_logs         \* change logs written while following Scenario
  ,
  \* --- read_captcha_from_canvas (CaptchaSpec)
  cpc,              \* position inside read_captcha_from_canvas
  canvas,           \* the element chosen as the CAPTCHA graphic
  strat,            \* i of  for i, strategy in enumerate(strategies, 1)
  cfg,              \* index of the OCR configuration being tried
  extracted,        \* what _extract_text_from_image returned last
  cap_ret,          \* what read_captcha_from_canvas returned
  missed,           \* an OCR result long enough was passed over
  ch,               \* colour channel of strategy 5
  thresh_bound,     \* strategy 5: the local thresh has been assigned
  dcont,            \* strategy 5: x of the digit contours still to read
  digits,           \* strategy 5: digits read in this channel
  best_result,      \* strategy 5: best_result
  best_confidence,  \* strategy 5: best_confidence
  tried,            \* the strategies called so far, in the order of the calls
  sraised,          \* one of the strategies 1 to 4 raised
  seen_confs,       \* strategy 5: the confidences computed so far
  digit_xs          \* strategy 5: x of the contour each digit was read from
  ,
  \* --- the Flask control surface of app.py (AppSpec)
  bot_status,       \* global bot_status: running, error_message
  bot_instance,     \* global bot_instance: 0 = None, i = the bot thread i made
  bot_driver,       \* self.driver of each bot: 0 = None, i = session of thread i
  session,          \* the browser session each thread's setup_driver opened
  spc,              \* position of each api_start request
  start_ret,        \* what each api_start request answered
  tpc,              \* position of each run_forum_bot thread
  tself,            \* self of the continuous_monitor call of each thread
  tcycles,          \* cycle_count of the continuous_monitor call of each thread
  tlast,            \* how the last cycle of each thread ended
  tauth,            \* how the auto-login of each thread ended
  stpc,             \* position of each api_stop request
  stop_ret,         \* what each api_stop request answered
  at_stop           \* cycle_count of each thread when api_stop last answered
                    \* success, -1 = not spawned by then
  ,
  ropc,             \* position of the api_run_once request
  ro_bot,           \* the bot whose run_automation_cycle the request called
  ro_ret,           \* what the api_run_once request answered
  \* --- login and run_automation_cycle on one bot (BotSpec)
  bpc,              \* position inside login or api_run_once
  bev,              \* what the bot did on the page, in order
  bret,             \* what login or run_automation_cycle returned
  bcode,            \* verification_code of login
  bnav,             \* the address after driver.get(login_url)
  burl,             \* driver.current_url as login read it after the submit
  bresp,            \* 'success' of the response of api_run_once
  bfield,           \* the text in each field of the login form
  bsignin           \* the element the sign-in cascade of login resolved
  ,
  \* --- simple_server.py: do_POST and monitor_bot (ServerSpec)
  srv_status,       \* global bot_status: running, error_message
  srv_process,      \* global bot_process: 0 = None, k = the Popen of request k
  proc,             \* each subprocess: none, alive, exited, terminated
  hpc,              \* position of the server thread inside do_POST
  hresp,            \* what the last request answered
  runs,             \* the /run-bot requests received
  stops,            \* the /stop-bot requests received
  mpc,              \* position of each monitor_bot thread
  msg_on            \* the state of bot_process when monitor_bot last wrote
                    \* 'Bot process ended', "none" = never written

capVars == <<cpc, canvas, strat, cfg, extracted, cap_ret, missed, ch,
             thresh_bound, dcont, digits, best_result, best_confidence,
             tried, sraised, seen_confs, digit_xs>>

monVars == <<pc, cycle_count, last_case_count, url, boxes, boxes0, events,
             sel_ret, sel_exc, prev_end, prev_obs, cur_obs, last_seen,
             scen, scen_logs>>

appVars == <<bot_status, bot_instance, bot_driver, session, spc, start_ret,
             tpc, tself, tcycles, tlast, tauth, stpc, stop_ret, at_stop,
             ropc, ro_bot, ro_ret>>

botVars == <<bpc, bev, bret, bcode, bnav, burl, bresp, bfield, bsignin>>

srvVars == <<srv_status, srv_process, proc, hpc, hresp, runs, stops, mpc,
             msg_on>>

vars == <<monVars, capVars, appVars, botVars, srvVars>>

\* what the monitor leaves alone
notMonitor == <<capVars, appVars, botVars, srvVars>>

\* ------------------------------------------------- select_first_checkbox
\* Where a driver call of select_first_checkbox can raise.
SelExcPoints == {"none", "find", "is_selected", "scroll", "label_find",
                 "label_click", "recheck", "direct_click", "recheck2"}
\* What a click that did not raise did to the first checkbox.
ClickEffects == {"toggle", "none"}

\* A select-all-pending variant: every unselected checkbox is clicked.
select_all_pending(b, exc, labelEff, directEff) ==
  IF exc = "find" \/ Len(b) = 0
    THEN [ret |-> PyInt(0), boxes |-> b, ev |-> <<>>]
    ELSE [ret |-> PyInt(Len(b)), boxes |-> [i \in 1..Len(b) |-> TRUE],
          ev |-> <<"scroll_checkbox", "settle", "click_label", "settle">>]

\* A variant that reports zero newly selected items for a selected checkbox.
select_first_checkbox_newly(b, exc, labelEff, directEff) ==
  IF exc = "find" \/ Len(b) = 0 \/ exc = "is_selected" \/ b[1]
    THEN [ret |-> PyInt(0), boxes |-> b, ev |-> <<>>]
    ELSE [ret |-> PyInt(1), boxes |-> [b EXCEPT ![1] = TRUE],
          ev |-> <<"scroll_checkbox", "settle", "click_label", "settle">>]

\* select_first_checkbox on table b. The checkbox is the first input of the
\* rows, the label the first label of the rows whose class is exactly
\* ant-checkbox-wrapper: both belong to row 1 when box 1 is not selected.
\* Every exception is caught inside and gives 0; a path on which both
\* clicks leave the box unselected falls off the end of the function.
select_first_checkbox(b, exc, labelEff, directEff) ==
  LET fail(bb, ev) == [ret |-> PyInt(0), boxes |-> bb, ev |-> ev]
      done(bb, ev) == [ret |-> PyInt(1), boxes |-> bb, ev |-> ev] IN
  IF exc = "find" \/ Len(b) = 0 THEN fail(b, <<>>)
  ELSE IF exc = "is_selected" THEN fail(b, <<>>)
  ELSE IF b[1] THEN done(b, <<>>)
  ELSE IF exc = "scroll" THEN fail(b, <<>>)
  ELSE LET ev0 == <<"scroll_checkbox", "settle">> IN
  IF exc = "label_find" THEN fail(b, ev0)
  ELSE IF exc = "label_click" THEN fail(b, Append(ev0, "click_label_raised"))
  ELSE LET b1  == IF labelEff = "toggle" THEN [b EXCEPT ![1] = TRUE] ELSE b
           ev1 == ev0 \o <<"click_label", "settle">> IN
  IF exc = "recheck" THEN fail(b1, ev1)
  ELSE IF b1[1] THEN done(b1, ev1)
  ELSE IF exc = "direct_click" THEN fail(b1, Append(ev1, "click_input_raised"))
  ELSE LET b2  == IF directEff = "toggle" THEN [b1 EXCEPT ![1] = TRUE] ELSE b1
           ev2 == ev1 \o <<"click_input", "settle">> IN
  IF exc = "recheck2" THEN fail(b2, ev2)
  ELSE IF b2[1] THEN done(b2, ev2)
  ELSE [ret |-> NoneVal, boxes |-> b2, ev |-> ev2]

\* ----------------------------------------------------------- click_confirm
\* What one selector of the cascade answers: the elements it matches, in
\* document order, or an exception of find_elements.
ElementKinds == {"ok", "hidden", "disabled"}
Matches(m) == [raised |-> FALSE, matches |-> m]
Raises == [raised |-> TRUE, matches |-> <<>>]
\* The pages the monitor meets when it confirms: what the selectors of the
\* cascade answer, in priority order.
ConfirmPages ==
  { <<Matches(<<>>), Matches(<<>>)>>,
    <<Raises, Raises>>,
    <<Matches(<<"hidden">>), Matches(<<"disabled">>)>>,
    <<Matches(<<"ok">>), Matches(<<>>)>>,
    <<Matches(<<"hidden", "ok">>), Matches(<<"ok">>)>>,
    <<Raises, Matches(<<"disabled", "ok">>)>> }

\* the first element of matches that is displayed and enabled, 0 = none
RECURSIVE FirstUsableFrom(_, _)
FirstUsableFrom(matches, i) ==
  IF i > Len(matches) THEN 0
  ELSE IF matches[i] = "ok" THEN i ELSE FirstUsableFrom(matches, i + 1)

\* the cascade of click_confirm: <<selector, element>> of the button, or
\* <<0, 0>> when every selector is exhausted
RECURSIVE LocateConfirmFrom(_, _)
LocateConfirmFrom(layout, s) ==
  IF s > Len(layout) THEN <<0, 0>>
  ELSE IF layout[s].raised THEN LocateConfirmFrom(layout, s + 1)
  ELSE LET i == FirstUsableFrom(layout[s].matches, 1) IN
       IF i > 0 THEN <<s, i>> ELSE LocateConfirmFrom(layout, s + 1)

ClickOutcomes == {"ok", "raise"}

\* A variant that clicks whatever the cascade found.
click_confirm_blind(layout, scrollOut, directOut, jsOut) ==
  [ret |-> TRUE, ev |-> <<"scroll_confirm", "settle", "click_confirm">>,
   button |-> LocateConfirmFrom(layout, 1)]

\* A variant without the scripted click: a direct click that raises fails.
click_confirm_direct(layout, scrollOut, directOut, jsOut) ==
  LET hit == LocateConfirmFrom(layout, 1) IN
  IF hit = <<0, 0>> \/ scrollOut = "raise"
    THEN [ret |-> FALSE, ev |-> <<>>, button |-> hit]
  ELSE IF directOut = "ok"
    THEN [ret |-> TRUE, ev |-> <<"scroll_confirm", "settle", "click_confirm">>,
          button |-> hit]
  ELSE [ret |-> FALSE,
        ev |-> <<"scroll_confirm", "settle", "click_confirm_raised">>,
        button |-> hit]

\* click_confirm against a page whose cascade answers layout: a direct
\* click, a scripted click when the direct one raises.
click_confirm(layout, scrollOut, directOut, jsOut) ==
  LET hit == LocateConfirmFrom(layout, 1) IN
  IF hit = <<0, 0>> THEN [ret |-> FALSE, ev |-> <<>>, button |-> hit]
  ELSE IF scrollOut = "raise" THEN [ret |-> FALSE, ev |-> <<>>, button |-> hit]
  ELSE LET ev0 == <<"scroll_confirm", "settle">> IN
  IF directOut = "ok"
    THEN [ret |-> TRUE, ev |-> Append(ev0, "click_confirm"), button |-> hit]
  ELSE IF jsOut = "ok"
    THEN [ret |-> TRUE,
          ev |-> ev0 \o <<"click_confirm_raised", "js_click_confirm">>,
          button |-> hit]
  ELSE [ret |-> FALSE,
        ev |-> ev0 \o <<"click_confirm_raised", "js_click_confirm_raised">>,
        button |-> hit]

\* ------------------------------------------------------ continuous_monitor
\* The counts of the scenario of the change log: 0, 3, 3, 0.
Scenario == <<0, 3, 3, 0>>

InitMonitor ==
  /\ pc = "loop"
  /\ cycle_count = 0
  /\ last_case_count = 0
  /\ url = {}
  /\ boxes = <<>>
  /\ boxes0 = <<>>
  /\ events = <<>>
  /\ sel_ret = Unset
  /\ sel_exc = "none"
  /\ prev_end = "none"
  /\ prev_obs = -1
  /\ cur_obs = -1
  /\ last_seen = 0
  /\ scen = 0
  /\ scen_logs = 0

obsVars == <<prev_end, prev_obs, cur_obs, last_seen, scen, scen_logs>>

\* A variant that logs every difference, a drop to zero included.
LogsChange_any(current, last) == current # last

\* if current_case_count > 0: if current_case_count != last_case_count:
\* the "New cases detected" line is logged
LogsChange(current, last) == current > 0 /\ current # last

\* last_case_count after the count of a cycle: assigned current in the
\* branch that logs, 0 in the branch "No cases found"
NextLastCaseCount(current, last) ==
  IF current > 0 THEN (IF current # last THEN current ELSE last) ELSE 0

\* Top of the loop: cycle_count += 1 and driver.get(base_url). The page that
\* loads is the environment's; a driver failure goes to the outer handler.
BeginCycle ==
  /\ pc = "loop"
  /\ cycle_count < MaxCycles
  /\ cycle_count' = cycle_count + 1
  /\ sel_ret' = Unset
  /\ sel_exc' = "none"
  /\ \/ /\ pc' = "recovery_sleep"
        /\ events' = <<"get_raised">>
        /\ UNCHANGED <<url, boxes, boxes0>>
     \/ \E u \in Urls :
          /\ url' = u
          /\ boxes' = <<>>
          /\ boxes0' = <<>>
          /\ events' = <<"get", "settle">>
          /\ pc' = "check_url"
  /\ prev_end' = IF events = <<>> THEN "none" ELSE events[Len(events)]
  /\ prev_obs' = cur_obs
  /\ cur_obs' = -1
  /\ last_seen' = IF cur_obs # -1 THEN cur_obs ELSE last_seen
  /\ UNCHANGED <<last_case_count, scen, scen_logs>>
  /\ UNCHANGED notMonitor

\* A variant that continues from the login page without the wait.
CheckUrl_nowait ==
  /\ pc = "check_url"
  /\ \/ /\ pc' = "recovery_sleep"
        /\ events' = Append(events, "url_raised")
     \/ /\ InUrl("login", url)
        /\ pc' = "loop"
        /\ events' = Append(events, "on_login_page")
     \/ /\ ~InUrl("login", url)
        /\ pc' = "cases"
        /\ events' = events
  /\ UNCHANGED <<cycle_count, last_case_count, url, boxes, boxes0, sel_ret,
                 sel_exc, obsVars>>
  /\ UNCHANGED notMonitor

\* A variant that goes on to the cases from the login page.
CheckUrl_through ==
  /\ pc = "check_url"
  /\ \/ /\ pc' = "recovery_sleep"
        /\ events' = Append(events, "url_raised")
     \/ /\ InUrl("login", url)
        /\ pc' = "cases"
        /\ events' = Append(events, "on_login_page")
     \/ /\ ~InUrl("login", url)
        /\ pc' = "cases"
        /\ events' = events
  /\ UNCHANGED <<cycle_count, last_case_count, url, boxes, boxes0, sel_ret,
                 sel_exc, obsVars>>
  /\ UNCHANGED notMonitor

\* current_url is read and tested for "login".
CheckUrl ==
  /\ pc = "check_url"
  /\ \/ /\ pc' = "recovery_sleep"
        /\ events' = Append(events, "url_raised")
     \/ /\ InUrl("login", url)
        /\ pc' = "backoff"
        /\ events' = Append(events, "on_login_page")
     \/ /\ ~InUrl("login", url)
        /\ pc' = "cases"
        /\ events' = events
  /\ UNCHANGED <<cycle_count, last_case_count, url, boxes, boxes0, sel_ret,
                 sel_exc, obsVars>>
  /\ UNCHANGED notMonitor

\* A variant that re-authenticates from the login page before it goes on.
Backoff_login ==
  /\ pc = "backoff"
  /\ pc' = "loop"
  /\ events' = events \o <<"call_login", "sleep10">>
  /\ UNCHANGED <<cycle_count, last_case_count, url, boxes, boxes0, sel_ret,
                 sel_exc, obsVars>>
  /\ UNCHANGED notMonitor

\* time.sleep(10); continue
Backoff ==
  /\ pc = "backoff"
  /\ pc' = "loop"
  /\ events' = Append(events, "sleep10")
  /\ UNCHANGED <<cycle_count, last_case_count, url, boxes, boxes0, sel_ret,
                 sel_exc, obsVars>>
  /\ UNCHANGED notMonitor

\* The checkboxes of the page just loaded are enumerated (find_elements)
\* and counted; the count is compared with
\* last_case_count. An exception goes to the inner handler.
CheckCases ==
  /\ pc = "cases"
  /\ \/ /\ pc' = "interval_sleep"
        /\ events' = Append(events, "inner_handler")
        /\ UNCHANGED <<last_case_count, obsVars, boxes, boxes0>>
     \/ \E b \in BoxStates :
        LET current_case_count == Len(b)
            changed == LogsChange(current_case_count, last_case_count)
            follows == scen = cycle_count - 1
                        /\ cycle_count <= Len(Scenario)
                        /\ Scenario[cycle_count] = current_case_count
        IN /\ boxes' = b
           /\ boxes0' = b
           /\ cur_obs' = current_case_count
           /\ UNCHANGED <<prev_end, prev_obs, last_seen>>
           /\ scen' = IF follows THEN cycle_count ELSE -1
           /\ scen_logs' = IF follows /\ changed THEN scen_logs + 1 ELSE scen_logs
           /\ IF current_case_count > 0
                THEN /\ last_case_count' =
                          NextLastCaseCount(current_case_count, last_case_count)
                     /\ events' = events \o <<"count">>
                                   \o (IF changed THEN <<"log_change">> ELSE <<>>)
                     /\ pc' = "select"
                ELSE /\ last_case_count' =
                          NextLastCaseCount(current_case_count, last_case_count)
                     /\ events' = events \o <<"count", "log_no_cases">>
                     /\ pc' = "interval_sleep"
  /\ UNCHANGED <<cycle_count, url, sel_ret, sel_exc>>
  /\ UNCHANGED notMonitor

\* selected_count = self.select_first_checkbox(); if selected_count > 0.
\* The comparison of None with 0 raises TypeError into the inner handler.
SelectCheckbox ==
  /\ pc = "select"
  /\ \E exc \in SelExcPoints, le \in ClickEffects, de \in ClickEffects :
       LET r == select_first_checkbox(boxes, exc, le, de) IN
         /\ boxes' = r.boxes
         /\ sel_ret' = r.ret
         /\ sel_exc' = exc
         /\ IF ~IsInt(r.ret)
              THEN /\ pc' = "interval_sleep"
                   /\ events' = events \o r.ev \o <<"inner_handler">>
              ELSE IF r.ret.val > 0
                THEN /\ pc' = "confirm"
                     /\ events' = events \o r.ev
                ELSE /\ pc' = "interval_sleep"
                     /\ events' = events \o r.ev
  /\ UNCHANGED <<cycle_count, last_case_count, url, boxes0, obsVars>>
  /\ UNCHANGED notMonitor

\* if self.click_confirm(): ... else: ...
ClickConfirm ==
  /\ pc = "confirm"
  /\ \E layout \in ConfirmPages, so \in ClickOutcomes, d \in ClickOutcomes,
        j \in ClickOutcomes :
       LET r == click_confirm(layout, so, d, j) IN
         /\ events' = events \o <<"call_click_confirm">> \o r.ev
         /\ pc' = "interval_sleep"
  /\ UNCHANGED <<cycle_count, last_case_count, url, boxes, boxes0, sel_ret,
                 sel_exc, obsVars>>
  /\ UNCHANGED notMonitor

\* time.sleep(interval_seconds) at the end of the try block
IntervalSleep ==
  /\ pc = "interval_sleep"
  /\ pc' = "loop"
  /\ events' = Append(events, "sleep_interval")
  /\ UNCHANGED <<cycle_count, last_case_count, url, boxes, boxes0, sel_ret,
                 sel_exc, obsVars>>
  /\ UNCHANGED notMonitor

\* A variant whose handler gives the loop up.
RecoverySleep_break ==
  /\ pc = "recovery_sleep"
  /\ pc' = "stopped"
  /\ events' = Append(events, "sleep5")
  /\ UNCHANGED <<cycle_count, last_case_count, url, boxes, boxes0, sel_ret,
                 sel_exc, obsVars>>
  /\ UNCHANGED notMonitor

\* except Exception: ... time.sleep(5)
RecoverySleep ==
  /\ pc = "recovery_sleep"
  /\ pc' = "loop"
  /\ events' = Append(events, "sleep5")
  /\ UNCHANGED <<cycle_count, last_case_count, url, boxes, boxes0, sel_ret,
                 sel_exc, obsVars>>
  /\ UNCHANGED notMonitor

\* KeyboardInterrupt: inside the try block it is caught and breaks the loop;
\* inside the handler's sleep it leaves the function.
Interrupt ==
  /\ pc \in {"check_url", "backoff", "cases", "select", "confirm",
             "interval_sleep", "recovery_sleep"}
  /\ pc' = IF pc = "recovery_sleep" THEN "interrupted" ELSE "stopped"
  /\ events' = Append(events, "KeyboardInterrupt")
  /\ UNCHANGED <<cycle_count, last_case_count, url, boxes, boxes0, sel_ret,
                 sel_exc, obsVars>>
  /\ UNCHANGED notMonitor

\* ================================================ read_captcha_from_canvas
\* len(captcha_text) >= 3: the least number of digits of an accepted code
MinCaptchaLen == 3
\* the OCR configurations of _extract_text_from_image
NumOcrConfigs == 9
\* the OCR configurations of one digit in strategy 5
NumDigitConfigs == 3
\* the strategies of read_captcha_from_canvas
NumStrategies == 5
\* the colour channels of strategy 5
NumChannels == 5

\* The characters of a raw OCR result: the digit 1, SUPERSCRIPT TWO (U+00B2,
\* written "sup2"), which is none of 0 to 9 and for which str.isdigit is
\* true, and one character for which it is false.
Chars == {"1", "sup2", "x"}
\* the characters among them for which str.isdigit is true
DigitChars == {"1", "sup2"}
\* the characters 0 to 9 among them
AsciiDigits == {"1"}
RawTexts == UNION {[1..n -> Chars] : n \in 0..MaxRawLen}
\* what one pytesseract.image_to_string call does: a raw text or an exception
OcrRaised == [raised |-> TRUE, text |-> <<>>]
OcrOutcomes == {[raised |-> FALSE, text |-> t] : t \in RawTexts} \cup {OcrRaised}
\* what OCR answers on the crop of one glyph: at most two characters, of
\* one digit and one character that is no digit
GlyphChars == {"1", "x"}
GlyphTexts == UNION {[1..n -> GlyphChars] : n \in 0..2}
GlyphOutcomes == {[raised |-> FALSE, text |-> t] : t \in GlyphTexts} \cup {OcrRaised}

\* ''.join(filter(str.isdigit, text))
RECURSIVE KeepDigits(_)
KeepDigits(t) ==
  IF t = <<>> THEN <<>>
  ELSE IF Head(t) \in DigitChars THEN <<Head(t)>> \o KeepDigits(Tail(t))
  ELSE KeepDigits(Tail(t))

\* Python values of a text result: a str, None, or nothing yet
PyStr(t) == [kind |-> "str", val |-> t]
NoText == [kind |-> "None", val |-> <<>>]
UnsetText == [kind |-> "unset", val |-> <<>>]

\* A variant that takes any result that is not empty.
Accepts_any(t) == Len(t) >= 1

\* if captcha_text and len(captcha_text) >= 3  in _extract_text_from_image
Accepts(t) == t # <<>> /\ Len(t) >= MinCaptchaLen

\* if captcha_text and len(captcha_text) >= 3  in read_captcha_from_canvas
ReturnAccepts(v) == v.kind = "str" /\ v.val # <<>> /\ Len(v.val) >= MinCaptchaLen

\* A variant that combines any digits a channel gave.
CombineAccepts_any(d) == d # <<>>

\* if digits and len(digits) >= 3  in _process_image_strategy_5
CombineAccepts(d) == d # <<>> /\ Len(d) >= MinCaptchaLen

\* An element the cascade of canvas selectors matches.
WidthSamples == {30, 31, 1920}
HeightSamples == {15, 16, 1080}
Candidates == [displayed : BOOLEAN, width : WidthSamples, height : HeightSamples]
CandidateLists == UNION {[1..n -> Candidates] : n \in 0..MaxCandidates}
NoCanvas == [displayed |-> FALSE, width |-> 0, height |-> 0]

\* the first candidate that is displayed with width > 30 and height > 15
RECURSIVE LocateCanvasFrom(_, _)
LocateCanvasFrom(cands, i) ==
  IF i > Len(cands) THEN 0
  ELSE IF cands[i].displayed /\ cands[i].width > 30 /\ cands[i].height > 15
    THEN i
  ELSE LocateCanvasFrom(cands, i + 1)

\* A contour of strategy 5: the x of its bounding box and its size.
XSamples == {0, 10}
SizeSamples == {<<8, 20>>, <<20, 20>>, <<20, 35>>}
Contours == [x : XSamples, size : SizeSamples]
ContourLists == UNION {[1..n -> Contours] : n \in 0..MaxContours}

\* if w > 8 and h > 12 and w < 40 and h < 35
DigitSized(c) == c.size[1] > 8 /\ c.size[2] > 12 /\ c.size[1] < 40 /\ c.size[2] < 35

RECURSIVE FilterDigitSized(_)
FilterDigitSized(cs) ==
  IF cs = <<>> THEN <<>>
  ELSE IF DigitSized(Head(cs)) THEN <<Head(cs)>> \o FilterDigitSized(Tail(cs))
  ELSE FilterDigitSized(Tail(cs))

\* digit_contours.sort(key=lambda x: x[0]): a stable sort on x
RECURSIVE InsertByX(_, _)
InsertByX(c, sorted) ==
  IF sorted = <<>> THEN <<c>>
  ELSE IF c.x < Head(sorted).x THEN <<c>> \o sorted
  ELSE <<Head(sorted)>> \o InsertByX(c, Tail(sorted))
\* A variant that leaves the contours in the order findContours gave them.
SortByX_none(cs) == cs

RECURSIVE SortByX(_)
SortByX(cs) ==
  IF cs = <<>> THEN <<>>
  ELSE LET n == Len(cs) IN InsertByX(cs[n], SortByX(SubSeq(cs, 1, n - 1)))

XsOf(cs) == [i \in 1..Len(cs) |-> cs[i].x]

InitCaptcha ==
  /\ cpc = "locate"
  /\ canvas = NoCanvas
  /\ strat = 0
  /\ cfg = 0
  /\ extracted = UnsetText
  /\ cap_ret = UnsetText
  /\ missed = FALSE
  /\ ch = 0
  /\ thresh_bound = FALSE
  /\ dcont = <<>>
  /\ digits = <<>>
  /\ best_result = NoText
  /\ best_confidence = 0
  /\ tried = <<>>
  /\ sraised = FALSE
  /\ seen_confs = {}
  /\ digit_xs = <<>>

\* what is recorded of the strategies called
calledVars == <<tried, sraised>>

s5Vars == <<ch, thresh_bound, dcont, digits, best_result, best_confidence,
            digit_xs>>

\* what read_captcha_from_canvas leaves alone
notCaptcha == <<monVars, appVars, botVars, srvVars>>

\* The canvas cascade, the scroll and the screenshot. An exception here is
\* caught by the outer handler, which returns None.
CapLocate ==
  /\ cpc = "locate"
  /\ \E cands \in CandidateLists, out \in {"ok", "raise"} :
       LET i == LocateCanvasFrom(cands, 1) IN
       IF i = 0 \/ out = "raise"
         THEN /\ cap_ret' = NoText
              /\ cpc' = "done"
              /\ canvas' = IF i = 0 THEN NoCanvas ELSE cands[i]
              /\ UNCHANGED strat
         ELSE /\ canvas' = cands[i]
              /\ strat' = 1
              /\ cpc' = "strategy"
              /\ UNCHANGED cap_ret
  /\ UNCHANGED <<cfg, extracted, missed, s5Vars>>
  /\ UNCHANGED <<calledVars, seen_confs>>
  /\ UNCHANGED notCaptcha

\* A variant in which a strategy that raises ends the call with None.
CapStrategy_abort ==
  /\ cpc = "strategy"
  /\ strat < NumStrategies
  /\ tried' = Append(tried, strat)
  /\ \/ /\ cpc' = "ocr"
        /\ cfg' = 1
        /\ UNCHANGED <<strat, sraised, cap_ret>>
     \/ /\ cpc' = "done"
        /\ cap_ret' = NoText
        /\ sraised' = TRUE
        /\ UNCHANGED <<strat, cfg>>
  /\ extracted' = UnsetText
  /\ UNCHANGED <<canvas, missed, s5Vars, seen_confs>>
  /\ UNCHANGED notCaptcha

\* Strategies 1 to 4 transform the image; _extract_text_from_image follows.
\* A strategy that raises is logged and the next one is tried.
CapStrategy ==
  /\ cpc = "strategy"
  /\ strat < NumStrategies
  /\ tried' = Append(tried, strat)
  /\ \/ /\ cpc' = "ocr"
        /\ cfg' = 1
        /\ UNCHANGED <<strat, sraised>>
     \/ /\ strat' = strat + 1
        /\ sraised' = TRUE
        /\ UNCHANGED <<cpc, cfg>>
  /\ extracted' = UnsetText
  /\ UNCHANGED <<canvas, cap_ret, missed, s5Vars, seen_confs>>
  /\ UNCHANGED notCaptcha

\* One OCR configuration of _extract_text_from_image and, once the function
\* returns, the test of read_captcha_from_canvas on what it returned.
CapOcr ==
  /\ cpc = "ocr"
  /\ \E o \in OcrOutcomes :
       LET text == KeepDigits(o.text)
           leave(v) ==
             /\ extracted' = v
             /\ IF ReturnAccepts(v)
                  THEN cap_ret' = v /\ cpc' = "done" /\ UNCHANGED <<strat, cfg>>
                  ELSE IF strat = NumStrategies
                    THEN cap_ret' = NoText /\ cpc' = "done"
                         /\ UNCHANGED <<strat, cfg>>
                    ELSE strat' = strat + 1 /\ cpc' = "strategy"
                         /\ cfg' = 0 /\ UNCHANGED cap_ret
       IN IF ~o.raised /\ Accepts(text)
            THEN leave(PyStr(text)) /\ UNCHANGED missed
            ELSE /\ missed' = (missed \/ (~o.raised /\ Len(text) >= MinCaptchaLen))
                 /\ IF cfg < NumOcrConfigs
                      THEN cfg' = cfg + 1
                           /\ UNCHANGED <<cpc, strat, extracted, cap_ret>>
                      ELSE leave(NoText)
  /\ UNCHANGED <<canvas, s5Vars>>
  /\ UNCHANGED <<calledVars, seen_confs>>
  /\ UNCHANGED notCaptcha

\* Strategy 5 starts: best_result = None, best_confidence = 0.
CapStrategy5 ==
  /\ cpc = "strategy"
  /\ strat = NumStrategies
  /\ \/ /\ cpc' = "s5_channel"
        /\ ch' = 1
        /\ thresh_bound' = FALSE
        /\ dcont' = <<>>
        /\ digits' = <<>>
        /\ digit_xs' = <<>>
        /\ best_result' = NoText
        /\ best_confidence' = 0
        /\ UNCHANGED cap_ret
     \/ \* the colour conversions raise: the strategy failed
        /\ cpc' = "done"
        /\ cap_ret' = NoText
        /\ UNCHANGED s5Vars
  /\ tried' = Append(tried, strat)
  /\ extracted' = UnsetText
  /\ UNCHANGED <<canvas, strat, cfg, missed, sraised, seen_confs>>
  /\ UNCHANGED notCaptcha

\* One colour channel: threshold, contours, the size filter and the sort.
\* An exception goes on with the next channel.
S5Channel ==
  /\ cpc = "s5_channel"
  /\ ch <= NumChannels
  /\ \/ /\ ch' = ch + 1
        /\ \E bound \in BOOLEAN : thresh_bound' = (thresh_bound \/ bound)
        /\ UNCHANGED <<cpc, dcont, digits, digit_xs, cfg>>
     \/ \E cs \in ContourLists :
          /\ dcont' = XsOf(SortByX(FilterDigitSized(cs)))
          /\ digits' = <<>>
          /\ digit_xs' = <<>>
          /\ thresh_bound' = TRUE
          /\ cfg' = 1
          /\ cpc' = "s5_digit"
          /\ UNCHANGED ch
  /\ UNCHANGED <<canvas, strat, extracted, cap_ret, missed, best_result,
                 best_confidence>>
  /\ UNCHANGED <<calledVars, seen_confs>>
  /\ UNCHANGED notCaptcha

\* One OCR configuration on the next digit: the first result that is one
\* digit is the digit; a digit no configuration reads is left out.
S5Digit ==
  /\ cpc = "s5_digit"
  /\ dcont # <<>>
  /\ \/ \E o \in GlyphOutcomes :
          LET text == KeepDigits(o.text) IN
          /\ IF ~o.raised /\ text # <<>> /\ Len(text) = 1
               THEN digits' = Append(digits, text[1])
                    /\ digit_xs' = Append(digit_xs, Head(dcont))
                    /\ dcont' = Tail(dcont) /\ cfg' = 1
               ELSE IF cfg < NumDigitConfigs
                 THEN cfg' = cfg + 1 /\ UNCHANGED <<dcont, digits, digit_xs>>
                 ELSE dcont' = Tail(dcont) /\ cfg' = 1
                      /\ UNCHANGED <<digits, digit_xs>>
          /\ UNCHANGED <<cpc, ch>>
     \/ \* the crop or the resize raises: on with the next channel
        /\ ch' = ch + 1
        /\ cpc' = "s5_channel"
        /\ dcont' = <<>>
        /\ digits' = <<>>
        /\ digit_xs' = <<>>
        /\ cfg' = 0
  /\ UNCHANGED <<canvas, strat, extracted, cap_ret, missed, thresh_bound,
                 best_result, best_confidence>>
  /\ UNCHANGED <<calledVars, seen_confs>>
  /\ UNCHANGED notCaptcha

\* A variant that keeps the first result and no later one.
KeepsCandidate_first(confidence, best) == best = 0

\* if confidence > best_confidence
KeepsCandidate(confidence, best) == confidence > best

\* The digits of the channel are joined; the longest result so far is kept.
\* (digits and cfg are assigned anew by the next channel: they are cleared.)
S5Combine ==
  /\ cpc = "s5_digit"
  /\ dcont = <<>>
  /\ IF CombineAccepts(digits) /\ KeepsCandidate(Len(digits), best_confidence)
       THEN best_result' = PyStr(digits) /\ best_confidence' = Len(digits)
       ELSE UNCHANGED <<best_result, best_confidence>>
  /\ seen_confs' = IF CombineAccepts(digits)
                     THEN seen_confs \cup {Len(digits)} ELSE seen_confs
  /\ ch' = ch + 1
  /\ cpc' = "s5_channel"
  /\ digits' = <<>>
  /\ digit_xs' = <<>>
  /\ cfg' = 0
  /\ UNCHANGED <<canvas, strat, extracted, cap_ret, missed, thresh_bound,
                 dcont>>
  /\ UNCHANGED calledVars
  /\ UNCHANGED notCaptcha

\* After the last channel: best_result if there is one, else thresh, which
\* goes to _extract_text_from_image; thresh never assigned is an
\* UnboundLocalError, caught as a failed strategy.
S5Finish ==
  /\ cpc = "s5_channel"
  /\ ch > NumChannels
  /\ IF best_result.kind = "str" /\ best_result.val # <<>>
       THEN IF ReturnAccepts(best_result)
              THEN cap_ret' = best_result /\ cpc' = "done" /\ UNCHANGED cfg
              ELSE cap_ret' = NoText /\ cpc' = "done" /\ UNCHANGED cfg
       ELSE IF thresh_bound
         THEN cpc' = "ocr" /\ cfg' = 1 /\ UNCHANGED cap_ret
         ELSE cap_ret' = NoText /\ cpc' = "done" /\ UNCHANGED cfg
  /\ UNCHANGED <<canvas, strat, extracted, missed, s5Vars>>
  /\ UNCHANGED <<calledVars, seen_confs>>
  /\ UNCHANGED notCaptcha

CaptchaNext ==
  \/ CapLocate
  \/ CapStrategy
  \/ CapOcr
  \/ CapStrategy5
  \/ S5Channel
  \/ S5Digit
  \/ S5Combine
  \/ S5Finish

\* ------------------------------------------------------------------------
\* The control surface of app.py: api_start, its thread run_forum_bot, and
\* api_stop. Flask serves requests concurrently, so the statements of the
\* handlers and of the threads interleave.
StartIds == 1..MaxStarts
StopIds == 1..MaxStops
NoBot == 0
NoDriver == 0

InitApp ==
  /\ bot_status = [running |-> FALSE, error_message |-> "None",
                   login_status |-> FALSE]
  /\ bot_instance = NoBot
  /\ bot_driver = [b \in StartIds |-> NoDriver]
  /\ session = [i \in StartIds |-> "none"]
  /\ spc = [i \in StartIds |-> "idle"]
  /\ start_ret = [i \in StartIds |-> "none"]
  /\ tpc = [i \in StartIds |-> "none"]
  /\ tself = [i \in StartIds |-> NoBot]
  /\ tcycles = [i \in StartIds |-> 0]
  /\ tlast = [i \in StartIds |-> "none"]
  /\ tauth = [i \in StartIds |-> "none"]
  /\ stpc = [j \in StopIds |-> "idle"]
  /\ stop_ret = [j \in StopIds |-> "none"]
  /\ at_stop = [i \in StartIds |-> -1]
  /\ ropc = "idle"
  /\ ro_bot = NoBot
  /\ ro_ret = "none"

\* update_bot_status(status_update): bot_status.update(status_update), on
\* the keys running, error_message and login_status
update_bot_status(status_update) ==
  bot_status' = [k \in DOMAIN bot_status |->
                   IF k \in DOMAIN status_update THEN status_update[k]
                                                ELSE bot_status[k]]

startVars == <<spc, start_ret>>
threadVars == <<tpc, tself, tcycles, tlast, tauth>>
stopVars == <<stpc, stop_ret, at_stop>>
runVars == <<ropc, ro_bot, ro_ret>>
notApp == <<monVars, capVars, botVars, srvVars>>

\* api_start up to the credentials: refused while bot_status['running'],
\* refused without username or password.
StartCheck(i) ==
  /\ spc[i] = "idle"
  /\ IF i = 1 THEN TRUE ELSE spc[i - 1] # "idle"
  /\ \E credentials \in BOOLEAN :
       IF bot_status.running \/ ~credentials
         THEN /\ spc' = [spc EXCEPT ![i] = "done"]
              /\ start_ret' = [start_ret EXCEPT ![i] = "failure"]
         ELSE /\ spc' = [spc EXCEPT ![i] = "checked"]
              /\ UNCHANGED start_ret
  /\ UNCHANGED <<bot_status, bot_instance, bot_driver, session, threadVars,
                 stopVars>>
  /\ UNCHANGED runVars
  /\ UNCHANGED notApp

\* update_bot_status({'running': True, 'error_message': None, ...})
StartUpdate(i) ==
  /\ spc[i] = "checked"
  /\ update_bot_status([running |-> TRUE, error_message |-> "None",
                        login_status |-> FALSE])
  /\ spc' = [spc EXCEPT ![i] = "updated"]
  /\ UNCHANGED <<bot_instance, bot_driver, session, start_ret, threadVars,
                 stopVars>>
  /\ UNCHANGED runVars
  /\ UNCHANGED notApp

\* A variant that runs the start of run_forum_bot in the request, up to the
\* open browser, before it answers.
StartSpawn_waits(i) ==
  /\ spc[i] = "updated"
  /\ spc' = [spc EXCEPT ![i] = "done"]
  /\ start_ret' = [start_ret EXCEPT ![i] = "success"]
  /\ tpc' = [tpc EXCEPT ![i] = "setup"]
  /\ bot_instance' = i
  /\ bot_driver' = [bot_driver EXCEPT ![i] = i]
  /\ session' = [session EXCEPT ![i] = "open"]
  /\ UNCHANGED <<bot_status, tself, tcycles, tlast, tauth, stopVars>>
  /\ UNCHANGED runVars
  /\ UNCHANGED notApp

\* threading.Thread(target=run_forum_bot, daemon=True).start(); the answer
StartSpawn(i) ==
  /\ spc[i] = "updated"
  /\ spc' = [spc EXCEPT ![i] = "done"]
  /\ start_ret' = [start_ret EXCEPT ![i] = "success"]
  /\ tpc' = [tpc EXCEPT ![i] = "spawned"]
  /\ UNCHANGED <<bot_status, bot_instance, bot_driver, session, tself,
                 tcycles, tlast, tauth, stopVars>>
  /\ UNCHANGED runVars
  /\ UNCHANGED notApp

\* except Exception of run_forum_bot: the thread ends, running goes False
ThreadFails(i) ==
  /\ tpc' = [tpc EXCEPT ![i] = "ended"]
  /\ update_bot_status([running |-> FALSE, error_message |-> "str"])

\* bot_instance = MicrosoftForumBot(headless=False): driver is None
ThreadCreate(i) ==
  /\ tpc[i] = "spawned"
  /\ bot_instance' = i
  /\ bot_driver' = [bot_driver EXCEPT ![i] = NoDriver]
  /\ tpc' = [tpc EXCEPT ![i] = "created"]
  /\ UNCHANGED <<bot_status, session, startVars, tself, tcycles, tlast, tauth,
                 stopVars>>
  /\ UNCHANGED runVars
  /\ UNCHANGED notApp

\* bot_instance.setup_driver(): the global is read again; None has no
\* setup_driver, and webdriver.Chrome can raise.
ThreadSetup(i) ==
  /\ tpc[i] = "created"
  /\ \E chrome_raises \in BOOLEAN :
       IF bot_instance = NoBot \/ chrome_raises
         THEN ThreadFails(i) /\ UNCHANGED <<bot_driver, session>>
         ELSE /\ session' = [session EXCEPT ![i] = "open"]
              /\ bot_driver' = [bot_driver EXCEPT ![bot_instance] = i]
              /\ tpc' = [tpc EXCEPT ![i] = "setup"]
              /\ UNCHANGED bot_status
  /\ UNCHANGED <<bot_instance, startVars, tself, tcycles, tlast, tauth, stopVars>>
  /\ UNCHANGED runVars
  /\ UNCHANGED notApp

\* A driver call on bot b works when b holds a session that is open.
DriverWorks(b) ==
  /\ b # NoBot
  /\ bot_driver[b] # NoDriver
  /\ session[bot_driver[b]] = "open"

\* How the auto-login of run_forum_bot ends: the address read after the
\* click is that of the application ("success"), or the thread waits 10 s
\* for a manual login ("failed": still on the login page, no button, or an
\* exception).
AutoLoginOutcomes == {"success", "failed"}

\* bot_instance.driver.get(login_url); the auto-fill and the auto-login
\* that follow catch their own exceptions and write nothing to bot_status.
ThreadNavigate(i) ==
  /\ tpc[i] = "setup"
  /\ IF DriverWorks(bot_instance)
       THEN /\ tpc' = [tpc EXCEPT ![i] = "navigated"]
            /\ \E outcome \in AutoLoginOutcomes :
                 tauth' = [tauth EXCEPT ![i] = outcome]
            /\ UNCHANGED bot_status
       ELSE ThreadFails(i) /\ UNCHANGED tauth
  /\ UNCHANGED <<bot_instance, bot_driver, session, startVars, tself,
                 tcycles, tlast, stopVars>>
  /\ UNCHANGED runVars
  /\ UNCHANGED notApp

\* bot_instance.continuous_monitor(interval_seconds=1): self is the bot the
\* global names at the call; cycle_count = 0.
ThreadMonitor(i) ==
  /\ tpc[i] = "navigated"
  /\ IF bot_instance = NoBot
       THEN ThreadFails(i) /\ UNCHANGED tself
       ELSE /\ tself' = [tself EXCEPT ![i] = bot_instance]
            /\ tpc' = [tpc EXCEPT ![i] = "monitor"]
            /\ UNCHANGED bot_status
  /\ UNCHANGED <<bot_instance, bot_driver, session, startVars, tcycles,
                 tlast, tauth, stopVars>>
  /\ UNCHANGED runVars
  /\ UNCHANGED notApp

\* How one pass of the loop ends on a session that is open: the page of
\* the application was checked ("ok"), the address had "login" in it and the
\* loop waited 10 s ("login"), or a driver call raised (the browser crashed
\* or its window was closed).
CycleOutcomes == {"ok", "login", "raised"}

\* One pass of while True in the thread: cycle_count += 1 and
\* self.driver.get; a driver that fails raises into except Exception, which
\* sleeps 5 s, and the loop goes on. KeyboardInterrupt reaches only the main
\* thread, so nothing ends the loop here.
ThreadCycle(i) ==
  /\ tpc[i] = "monitor"
  /\ tcycles[i] < MaxLoopCycles
  /\ tcycles' = [tcycles EXCEPT ![i] = @ + 1]
  /\ \E outcome \in CycleOutcomes :
       tlast' = [tlast EXCEPT ![i] =
                   IF DriverWorks(tself[i]) THEN outcome ELSE "raised"]
  /\ UNCHANGED <<bot_status, bot_instance, bot_driver, session, startVars,
                 tpc, tself, tauth, stopVars>>
  /\ UNCHANGED runVars
  /\ UNCHANGED notApp

\* api_stop:  if bot_instance:
StopTest(j) ==
  /\ stpc[j] = "idle"
  /\ IF j = 1 THEN TRUE ELSE stpc[j - 1] # "idle"
  /\ stpc' = [stpc EXCEPT ![j] =
                IF bot_instance # NoBot THEN "close" ELSE "update"]
  /\ UNCHANGED <<bot_status, bot_instance, bot_driver, session, startVars,
                 threadVars, stop_ret, at_stop>>
  /\ UNCHANGED runVars
  /\ UNCHANGED notApp

\* close(self):  if self.driver: self.driver.quit()
close(b) ==
  IF bot_driver[b] # NoDriver
    THEN session' = [session EXCEPT ![bot_driver[b]] = "quit"]
    ELSE UNCHANGED session

\* bot_instance.close(): the global is read again; None has no close, and
\* the handler then answers failure.
StopClose(j) ==
  /\ stpc[j] = "close"
  /\ IF bot_instance = NoBot
       THEN /\ stpc' = [stpc EXCEPT ![j] = "done"]
            /\ stop_ret' = [stop_ret EXCEPT ![j] = "failure"]
            /\ UNCHANGED session
       ELSE /\ close(bot_instance)
            /\ stpc' = [stpc EXCEPT ![j] = "clear"]
            /\ UNCHANGED stop_ret
  /\ UNCHANGED <<bot_status, bot_instance, bot_driver, startVars,
                 threadVars, at_stop>>
  /\ UNCHANGED runVars
  /\ UNCHANGED notApp

\* bot_instance = None
StopClear(j) ==
  /\ stpc[j] = "clear"
  /\ bot_instance' = NoBot
  /\ stpc' = [stpc EXCEPT ![j] = "update"]
  /\ UNCHANGED <<bot_status, bot_driver, session, startVars, threadVars,
                 stop_ret, at_stop>>
  /\ UNCHANGED runVars
  /\ UNCHANGED notApp

\* update_bot_status({'running': False, 'error_message': None}) and the
\* answer 'Bot stopped successfully'.
StopFinish(j) ==
  /\ stpc[j] = "update"
  /\ update_bot_status([running |-> FALSE, error_message |-> "None"])
  /\ stpc' = [stpc EXCEPT ![j] = "done"]
  /\ stop_ret' = [stop_ret EXCEPT ![j] = "success"]
  /\ at_stop' = [i \in StartIds |->
                   IF tpc[i] = "none" THEN -1 ELSE tcycles[i]]
  /\ UNCHANGED <<bot_instance, bot_driver, session, startVars, threadVars>>
  /\ UNCHANGED runVars
  /\ UNCHANGED notApp

\* api_run_once:  if not bot_instance: answer 'Bot not initialized'
RunOnceTest ==
  /\ ropc = "idle"
  /\ IF bot_instance = NoBot
       THEN ropc' = "done" /\ ro_ret' = "failure"
       ELSE ropc' = "call" /\ UNCHANGED ro_ret
  /\ UNCHANGED <<bot_status, bot_instance, bot_driver, session, startVars,
                 threadVars, stopVars, ro_bot>>
  /\ UNCHANGED notApp

\* success = bot_instance.run_automation_cycle(): the global is read again;
\* None has no run_automation_cycle, and the handler answers failure.
RunOnceCall ==
  /\ ropc = "call"
  /\ IF bot_instance = NoBot
       THEN ropc' = "done" /\ ro_ret' = "failure" /\ UNCHANGED ro_bot
       ELSE ropc' = "cycle" /\ ro_bot' = bot_instance /\ UNCHANGED ro_ret
  /\ UNCHANGED <<bot_status, bot_instance, bot_driver, session, startVars,
                 threadVars, stopVars>>
  /\ UNCHANGED notApp

\* run_automation_cycle has returned, in the thread of the request; a
\* driver that fails makes it return False.
RunOnceReturn ==
  /\ ropc = "cycle"
  /\ \E success \in BOOLEAN :
       ro_ret' = IF DriverWorks(ro_bot) /\ success THEN "success"
                                                   ELSE "failure"
  /\ ropc' = "done"
  /\ UNCHANGED <<bot_status, bot_instance, bot_driver, session, startVars,
                 threadVars, stopVars, ro_bot>>
  /\ UNCHANGED notApp

\* api_start and the threads it spawns
StartNext ==
  \/ \E i \in StartIds : StartCheck(i)
  \/ \E i \in StartIds : StartUpdate(i)
  \/ \E i \in StartIds : StartSpawn(i)
  \/ \E i \in StartIds : ThreadCreate(i)
  \/ \E i \in StartIds : ThreadSetup(i)
  \/ \E i \in StartIds : ThreadNavigate(i)
  \/ \E i \in StartIds : ThreadMonitor(i)
  \/ \E i \in StartIds : ThreadCycle(i)

AppNext ==
  \/ RunOnceTest
  \/ RunOnceCall
  \/ RunOnceReturn
  \/ \E i \in StartIds : StartCheck(i)
  \/ \E i \in StartIds : StartUpdate(i)
  \/ \E i \in StartIds : StartSpawn(i)
  \/ \E i \in StartIds : ThreadCreate(i)
  \/ \E i \in StartIds : ThreadSetup(i)
  \/ \E i \in StartIds : ThreadNavigate(i)
  \/ \E i \in StartIds : ThreadMonitor(i)
  \/ \E i \in StartIds : ThreadCycle(i)
  \/ \E j \in StopIds : StopTest(j)
  \/ \E j \in StopIds : StopClose(j)
  \/ \E j \in StopIds : StopClear(j)
  \/ \E j \in StopIds : StopFinish(j)

\* ------------------------------------------------------------------------
\* login(username, password, verification_code) on one bot.

\* Characters of a CAPTCHA code as a person types it: a digit or a blank.
CodeChars == {"7", " "}
Codes == UNION {[1..n -> CodeChars] : n \in 0..MaxCodeLen}

\* str.strip() on the blank
RECURSIVE LStrip(_)
LStrip(t) == IF t # <<>> /\ Head(t) = " " THEN LStrip(Tail(t)) ELSE t
RECURSIVE RStrip(_)
RStrip(t) ==
  IF t # <<>> /\ t[Len(t)] = " " THEN RStrip(SubSeq(t, 1, Len(t) - 1)) ELSE t
Strip(t) == RStrip(LStrip(t))

\* What one selector of a field cascade answers to find_elements: the
\* elements it matches, NoSuchElementException, or another exception.
FieldFound(m) == [raised |-> "none", matches |-> m]
FieldNoSuch == [raised |-> "nosuch", matches |-> <<>>]
FieldOther == [raised |-> "other", matches |-> <<>>]
\* The pages login meets: what the selectors of one field answer, in order.
FieldPages ==
  { <<FieldFound(<<>>), FieldFound(<<>>)>>,
    <<FieldFound(<<"hidden">>), FieldFound(<<"hidden", "hidden">>)>>,
    <<FieldFound(<<"shown">>), FieldFound(<<>>)>>,
    <<FieldFound(<<>>), FieldFound(<<"hidden", "shown">>)>>,
    <<FieldNoSuch, FieldFound(<<"shown">>)>>,
    <<FieldNoSuch, FieldNoSuch>>,
    <<FieldFound(<<>>), FieldOther>> }

\* for selector in ..._selectors: the first displayed element of the first
\* selector that has one; NoSuchElementException goes on with the next
\* selector, any other exception leaves login through its handler.
RECURSIVE LocateFieldFrom(_, _)
LocateFieldFrom(layout, s) ==
  IF s > Len(layout) THEN "not_found"
  ELSE IF layout[s].raised = "other" THEN "raised"
  ELSE IF layout[s].raised = "nosuch" THEN LocateFieldFrom(layout, s + 1)
  ELSE IF \E i \in 1..Len(layout[s].matches) : layout[s].matches[i] = "shown"
    THEN "found"
  ELSE LocateFieldFrom(layout, s + 1)

\* What the selectors of the sign-in button answer to find_element: the
\* first element of the document that matches ("element" is displayed,
\* "hidden" is not), NoSuchElementException, or another exception.
SigninPages ==
  { <<"nosuch", "nosuch">>,
    <<"element", "nosuch">>,
    <<"nosuch", "element">>,
    <<"nosuch", "other">>,
    <<"other", "element">>,
    <<"hidden", "element">>,
    <<"nosuch", "hidden">> }

\* for selector in signin_selectors: the first selector that finds an element
RECURSIVE LocateSigninFrom(_, _)
LocateSigninFrom(layout, s) ==
  IF s > Len(layout) THEN "not_found"
  ELSE IF layout[s] = "other" THEN "raised"
  ELSE IF layout[s] \in {"element", "hidden"} THEN "found"
  ELSE LocateSigninFrom(layout, s + 1)

\* signin_button after the cascade: what find_element answered, "none" when
\* the cascade ended without an element
RECURSIVE SigninElementFrom(_, _)
SigninElementFrom(layout, s) ==
  IF s > Len(layout) THEN "none"
  ELSE IF layout[s] = "other" THEN "none"
  ELSE IF layout[s] \in {"element", "hidden"} THEN layout[s]
  ELSE SigninElementFrom(layout, s + 1)

\* if "MicrosoftForum" in current_url or "login" not in current_url
LoginSucceeded(u) == InUrl("MicrosoftForum", u) \/ ~InUrl("login", u)

InitBot ==
  /\ bpc = "idle"
  /\ bev = <<>>
  /\ bret = "unset"
  /\ bcode = UnsetText
  /\ bnav = {}
  /\ burl = {}
  /\ bresp = "unset"
  /\ bfield = [role \in {"username", "password", "verification"} |-> <<>>]
  /\ bsignin = "none"

\* the form as login finds and fills it
formVars == <<bfield, bsignin>>

notBot == <<monVars, capVars, appVars, srvVars>>

\* except Exception of login: return False
LoginFails(ev) ==
  /\ bev' = ev
  /\ bret' = "False"
  /\ bpc' = "done"

\* login is called with a code or with None; self.driver.get(login_url)
LoginBegin ==
  /\ bpc = "idle"
  /\ \E code \in {PyStr(c) : c \in Codes} \cup {NoText} :
       /\ bcode' = code
       /\ \/ LoginFails(<<"get_login_raised">>) /\ UNCHANGED bnav
          \/ \E u \in Urls :
               /\ bnav' = u
               /\ bev' = <<"get_login">>
               /\ bpc' = "locate_username"
               /\ UNCHANGED bret
  /\ UNCHANGED <<burl, bresp>>
  /\ UNCHANGED formVars
  /\ UNCHANGED notBot

\* What a field of the form holds when login finds it: nothing, or text
\* left there (a value the browser filled in, an earlier attempt).
StaleTexts == {<<>>, <<"x">>}

\* A variant that goes on with the next step when a field is not found.
LocateField_lenient(role, next) ==
  /\ bpc = "locate_" \o role
  /\ \E layout \in FieldPages :
       LET hit == LocateFieldFrom(layout, 1) IN
       /\ bev' = Append(bev, IF hit = "found" THEN "found_" \o role
                                              ELSE "notfound_" \o role)
       /\ bpc' = next
       /\ UNCHANGED bret
  /\ UNCHANGED <<bcode, bnav, burl, bresp>>
  /\ UNCHANGED formVars
  /\ UNCHANGED notBot

\* One field cascade of login: found goes on, not found raises
\* Exception("... field not found"), which the handler of login answers
\* with False.
LocateField(role, next) ==
  /\ bpc = "locate_" \o role
  /\ \E layout \in FieldPages :
       LET hit == LocateFieldFrom(layout, 1) IN
       IF hit = "found"
         THEN /\ bpc' = next
              /\ \E stale \in StaleTexts :
                   /\ bfield' = [bfield EXCEPT ![role] = stale]
                   /\ bev' = Append(bev, "found_" \o role)
                              \o (IF stale # <<>> THEN <<"stale_" \o role>>
                                                  ELSE <<>>)
              /\ UNCHANGED bret
         ELSE /\ LoginFails(Append(bev, IF hit = "raised"
                                          THEN "locate_raised_" \o role
                                          ELSE "notfound_" \o role))
              /\ UNCHANGED bfield
  /\ UNCHANGED <<bcode, bnav, burl, bresp, bsignin>>
  /\ UNCHANGED notBot

LoginLocateUsername == LocateField("username", "locate_password")
LoginLocatePassword == LocateField("password", "locate_verification")
LoginLocateVerification == LocateField("verification", "fill")

\* Where clear() or send_keys() on the two credential fields can raise.
FillExcPoints == {"none", "username_clear", "username_send",
                  "password_clear", "password_send"}

\* what the credential step did up to the call that raised
FillEvents(exc) ==
  IF exc = "username_clear" THEN <<>>
  ELSE IF exc = "username_send" THEN <<"clear_username">>
  ELSE IF exc = "password_clear" THEN <<"clear_username", "type_username">>
  ELSE IF exc = "password_send"
    THEN <<"clear_username", "type_username", "clear_password">>
  ELSE <<"clear_username", "type_username", "clear_password",
         "type_password">>

\* the username and the password login is called with
Username == <<"u">>
Password == <<"p">>

\* A variant of clear() that leaves the text of the element as it is.
clear_keeps(content) == content

\* WebElement.clear(): the element holds no text
clear(content) == <<>>

\* WebElement.send_keys(text): the text is typed after what the element holds
send_keys(content, text) == content \o text

\* the fields after the credential step, up to the call that raised
FillFields(f, exc) ==
  LET u0 == f["username"]
      p0 == f["password"]
      u1 == clear(u0)
      u2 == send_keys(u1, Username)
      p1 == clear(p0)
      p2 == send_keys(p1, Password)
  IN IF exc = "username_clear" THEN f
     ELSE IF exc = "username_send" THEN [f EXCEPT !["username"] = u1]
     ELSE IF exc = "password_clear" THEN [f EXCEPT !["username"] = u2]
     ELSE IF exc = "password_send"
       THEN [f EXCEPT !["username"] = u2, !["password"] = p1]
     ELSE [f EXCEPT !["username"] = u2, !["password"] = p2]

\* username_field.clear(); send_keys(username); the same for the password
LoginFill ==
  /\ bpc = "fill"
  /\ \E exc \in FillExcPoints :
       /\ bfield' = FillFields(bfield, exc)
       /\ IF exc = "none"
            THEN /\ bev' = bev \o FillEvents(exc)
                 /\ bpc' = "code"
                 /\ UNCHANGED bret
            ELSE LoginFails(bev \o FillEvents(exc) \o <<"fill_raised">>)
  /\ UNCHANGED <<bcode, bnav, burl, bresp, bsignin>>
  /\ UNCHANGED notBot

\* if verification_code is None
NeedsPrompt(code) == code.kind = "None"

\* the shortest code the prompt of login takes
MinManualLen == 3

\* if verification_code and len(verification_code) >= 3  at the prompt
PromptAccepts(t) == t # <<>> /\ Len(t) >= MinManualLen

\* A variant with automatic resolution before the prompt: three attempts,
\* each failed one followed by a refresh of the CAPTCHA.
LoginObtainCode_auto ==
  /\ bpc = "code"
  /\ bev' = bev \o <<"read_captcha", "refresh_captcha",
                     "read_captcha", "refresh_captcha",
                     "read_captcha", "refresh_captcha", "prompt">>
  /\ bcode' = PyStr(<<"7", "7", "7">>)
  /\ bpc' = "enter_code"
  /\ UNCHANGED <<bret, bnav, burl, bresp>>
  /\ UNCHANGED formVars
  /\ UNCHANGED notBot

\* verification_code is None: input(...).strip() and the length test; a
\* short code, KeyboardInterrupt or any other exception of input() ends in
\* Exception("Failed to get manual CAPTCHA input"). A code that was given
\* is taken as it is.
LoginObtainCode ==
  /\ bpc = "code"
  /\ IF NeedsPrompt(bcode)
       THEN \/ LoginFails(bev \o <<"prompt", "prompt_raised">>)
               /\ UNCHANGED bcode
            \/ \E raw \in Codes :
                 LET typed == Strip(raw) IN
                 IF PromptAccepts(typed)
                   THEN /\ bcode' = PyStr(typed)
                        /\ bev' = Append(bev, "prompt")
                        /\ bpc' = "enter_code"
                        /\ UNCHANGED bret
                   ELSE /\ LoginFails(bev \o <<"prompt", "invalid_code">>)
                        /\ bcode' = PyStr(typed)
       ELSE /\ bpc' = "enter_code"
            /\ UNCHANGED <<bev, bret, bcode>>
  /\ UNCHANGED <<bnav, burl, bresp>>
  /\ UNCHANGED formVars
  /\ UNCHANGED notBot

\* A variant that goes to the sign-in button without entering the code.
LoginEnterCode_skip ==
  /\ bpc = "enter_code"
  /\ bpc' = "signin"
  /\ UNCHANGED <<bev, bret, bcode, bnav, burl, bresp>>
  /\ UNCHANGED formVars
  /\ UNCHANGED notBot

\* verification_field.clear(); verification_field.send_keys(code)
LoginEnterCode ==
  /\ bpc = "enter_code"
  /\ LET v0 == bfield["verification"]
         v1 == clear(v0)
         v2 == send_keys(v1, bcode.val)
     IN \/ \* clear() raises
           /\ LoginFails(Append(bev, "enter_code_raised"))
           /\ UNCHANGED bfield
        \/ \* send_keys() raises
           /\ LoginFails(bev \o <<"clear_code", "enter_code_raised">>)
           /\ bfield' = [bfield EXCEPT !["verification"] = v1]
        \/ /\ bev' = bev \o <<"clear_code", "type_code">>
           /\ bfield' = [bfield EXCEPT !["verification"] = v2]
           /\ bpc' = "signin"
           /\ UNCHANGED bret
  /\ UNCHANGED <<bcode, bnav, burl, bresp, bsignin>>
  /\ UNCHANGED notBot

\* The sign-in cascade and signin_button.click()
LoginSubmit ==
  /\ bpc = "signin"
  /\ \E layout \in SigninPages, clickOut \in ClickOutcomes :
       LET hit == LocateSigninFrom(layout, 1) IN
       /\ bsignin' = SigninElementFrom(layout, 1)
       /\ IF hit = "found"
            THEN IF clickOut = "ok"
                   THEN /\ bev' = bev \o <<"found_signin", "click_signin">>
                        /\ bpc' = "outcome"
                        /\ UNCHANGED bret
                   ELSE LoginFails(bev \o <<"found_signin",
                                            "click_signin_raised">>)
            ELSE LoginFails(Append(bev, IF hit = "raised"
                                          THEN "locate_raised_signin"
                                          ELSE "notfound_signin"))
  /\ UNCHANGED <<bcode, bnav, burl, bresp, bfield>>
  /\ UNCHANGED notBot

\* A variant that takes every address without "login" for failure.
LoginOutcomeOf_strict(u) == InUrl("MicrosoftForum", u)

\* return True / return False on the address read after the wait
LoginOutcomeOf(u) == LoginSucceeded(u)

\* time.sleep(5); current_url = self.driver.current_url; the test on it
LoginOutcome ==
  /\ bpc = "outcome"
  /\ \/ LoginFails(Append(bev, "current_url_raised")) /\ UNCHANGED burl
     \/ \E u \in Urls :
          /\ burl' = u
          /\ bev' = Append(bev, "read_url")
          /\ bret' = IF LoginOutcomeOf(u) THEN "True" ELSE "False"
          /\ bpc' = "done"
  /\ UNCHANGED <<bcode, bnav, bresp>>
  /\ UNCHANGED formVars
  /\ UNCHANGED notBot

\* ------------------------------------------------------------------------
\* api_run_once and run_automation_cycle on one bot.

\* except Exception of run_automation_cycle and its returns of False
CycleReturns(ev, ret) ==
  /\ bev' = ev
  /\ bret' = ret
  /\ bpc' = "respond"

\* api_run_once: without a bot it answers 'Bot not initialized'; with one it
\* calls run_automation_cycle, which begins with self.driver.get(base_url).
RunOnceBegin ==
  /\ bpc = "idle"
  /\ \E initialized \in BOOLEAN :
       IF ~initialized
         THEN /\ bresp' = "False"
              /\ bpc' = "done"
              /\ UNCHANGED <<bev, bret>>
         ELSE /\ \/ CycleReturns(<<"cycle_start", "get_raised">>, "False")
                 \/ /\ bev' = <<"cycle_start", "get", "settle">>
                    /\ bpc' = "signin_check"
                    /\ UNCHANGED bret
              /\ UNCHANGED bresp
  /\ UNCHANGED <<bcode, bnav, burl>>
  /\ UNCHANGED formVars
  /\ UNCHANGED notBot

\* What the page shows of a Sign In button.
SignInSeen == {"displayed", "hidden", "absent", "raised"}

\* A displayed Sign In button means not logged in: return False. An
\* exception of the search is passed over.
CycleSignInCheck ==
  /\ bpc = "signin_check"
  /\ \E seen \in SignInSeen :
       IF seen = "displayed"
         THEN CycleReturns(Append(bev, "sign_in_seen"), "False")
         ELSE /\ bpc' = "select"
              /\ UNCHANGED <<bev, bret>>
  /\ UNCHANGED <<bcode, bnav, burl, bresp>>
  /\ UNCHANGED formVars
  /\ UNCHANGED notBot

\* selected_count = self.select_first_checkbox(); if selected_count > 0.
\* None > 0 raises TypeError, which the handler of the cycle answers with
\* False.
CycleSelect ==
  /\ bpc = "select"
  /\ \E b \in BoxStates, exc \in SelExcPoints, le \in ClickEffects,
        de \in ClickEffects :
       LET r == select_first_checkbox(b, exc, le, de) IN
       IF ~IsInt(r.ret)
         THEN CycleReturns(bev \o r.ev \o <<"type_error">>, "False")
       ELSE IF r.ret.val > 0
         THEN /\ bev' = bev \o r.ev
              /\ bpc' = "confirm"
              /\ UNCHANGED bret
       ELSE CycleReturns(bev \o r.ev, "False")
  /\ UNCHANGED <<bcode, bnav, burl, bresp>>
  /\ UNCHANGED formVars
  /\ UNCHANGED notBot

\* if self.click_confirm(): return True, else return False
CycleConfirm ==
  /\ bpc = "confirm"
  /\ \E layout \in ConfirmPages, so \in ClickOutcomes, d \in ClickOutcomes,
        j \in ClickOutcomes :
       LET r == click_confirm(layout, so, d, j)
           located == IF r.button = <<0, 0>> THEN "notfound_confirm"
                                             ELSE "found_confirm"
       IN CycleReturns(bev \o <<located>> \o r.ev,
                       IF r.ret THEN "True" ELSE "False")
  /\ UNCHANGED <<bcode, bnav, burl, bresp>>
  /\ UNCHANGED formVars
  /\ UNCHANGED notBot

\* A variant that answers success whatever the cycle returned.
ResponseOf_always(ret) == "True"

\* 'success' of the response: True if success, else False
ResponseOf(ret) == ret

\* return jsonify({'success': ...}) once run_automation_cycle has returned
RunOnceRespond ==
  /\ bpc = "respond"
  /\ bresp' = ResponseOf(bret)
  /\ bpc' = "done"
  /\ UNCHANGED <<bev, bret, bcode, bnav, burl>>
  /\ UNCHANGED formVars
  /\ UNCHANGED notBot

BotNext ==
  \/ LoginBegin
  \/ LoginLocateUsername
  \/ LoginLocatePassword
  \/ LoginLocateVerification
  \/ LoginFill
  \/ LoginObtainCode
  \/ LoginEnterCode
  \/ LoginSubmit
  \/ LoginOutcome
  \/ RunOnceBegin
  \/ CycleSignInCheck
  \/ CycleSelect
  \/ CycleConfirm
  \/ RunOnceRespond

\* ------------------------------------------------------------------------
\* simple_server.py: the handler do_POST and the thread monitor_bot.
\* HTTPServer serves one request at a time, so the statements of two
\* requests never interleave; the monitor_bot threads run beside the server
\* thread, and their statements interleave with those of a request.
ProcIds == 1..MaxRuns
NoProcess == 0

InitServer ==
  /\ srv_status = [running |-> FALSE, error_message |-> "None"]
  /\ srv_process = NoProcess
  /\ proc = [k \in ProcIds |-> "none"]
  /\ hpc = "idle"
  /\ hresp = "none"
  /\ runs = 0
  /\ stops = 0
  /\ mpc = [k \in ProcIds |-> "none"]
  /\ msg_on = "none"

\* what simple_server leaves alone
notServer == <<monVars, capVars, appVars, botVars>>

\* /run-bot:  if bot_status['running']: answer 400 'Bot already running'
RunBotTest ==
  /\ hpc = "idle"
  /\ runs < MaxRuns
  /\ runs' = runs + 1
  /\ IF srv_status.running
       THEN hresp' = "rejected" /\ UNCHANGED hpc
       ELSE hpc' = "popen" /\ UNCHANGED hresp
  /\ UNCHANGED <<srv_status, srv_process, proc, stops, mpc, msg_on>>
  /\ UNCHANGED notServer

\* except Exception as e  of /run-bot: running = False, error_message =
\* str(e), answer 500
RunBotFails ==
  /\ srv_status' = [running |-> FALSE, error_message |-> "exception"]
  /\ hresp' = "error"
  /\ hpc' = "idle"

\* os.chdir and bot_process = subprocess.Popen(...): the subprocess of this
\* request runs, or one of the two calls raises.
RunBotPopen ==
  /\ hpc = "popen"
  /\ \/ /\ srv_process' = runs
        /\ proc' = [proc EXCEPT ![runs] = "alive"]
        /\ hpc' = "set_running"
        /\ UNCHANGED <<srv_status, hresp>>
     \/ /\ RunBotFails
        /\ UNCHANGED <<srv_process, proc>>
  /\ UNCHANGED <<runs, stops, mpc, msg_on>>
  /\ UNCHANGED notServer

\* bot_status['running'] = True
RunBotSetRunning ==
  /\ hpc = "set_running"
  /\ srv_status' = [srv_status EXCEPT !.running = TRUE]
  /\ hpc' = "clear_error"
  /\ UNCHANGED <<srv_process, proc, hresp, runs, stops, mpc, msg_on>>
  /\ UNCHANGED notServer

\* bot_status['error_message'] = None
RunBotClearError ==
  /\ hpc = "clear_error"
  /\ srv_status' = [srv_status EXCEPT !.error_message = "None"]
  /\ hpc' = "respond"
  /\ UNCHANGED <<srv_process, proc, hresp, runs, stops, mpc, msg_on>>
  /\ UNCHANGED notServer

\* The answer 200 is written and the monitor_bot thread is started; a write
\* that raises goes to the except clause and no thread is started.
RunBotSpawn ==
  /\ hpc = "respond"
  /\ \/ /\ mpc' = [mpc EXCEPT ![runs] = "test"]
        /\ hresp' = "ok"
        /\ hpc' = "idle"
        /\ UNCHANGED srv_status
     \/ /\ RunBotFails
        /\ UNCHANGED mpc
  /\ UNCHANGED <<srv_process, proc, runs, stops, msg_on>>
  /\ UNCHANGED notServer

\* /stop-bot:  if bot_process:
StopBotTest ==
  /\ hpc = "idle"
  /\ stops < MaxSrvStops
  /\ stops' = stops + 1
  /\ hpc' = IF srv_process # NoProcess THEN "terminate" ELSE "stop_status"
  /\ UNCHANGED <<srv_status, srv_process, proc, hresp, runs, mpc, msg_on>>
  /\ UNCHANGED notServer

\* bot_process.terminate(): a subprocess that has ended is left as it is
StopBotTerminate ==
  /\ hpc = "terminate"
  /\ proc' = IF proc[srv_process] = "alive"
               THEN [proc EXCEPT ![srv_process] = "terminated"] ELSE proc
  /\ hpc' = "stop_clear"
  /\ UNCHANGED <<srv_status, srv_process, hresp, runs, stops, mpc, msg_on>>
  /\ UNCHANGED notServer

\* bot_process = None
StopBotClear ==
  /\ hpc = "stop_clear"
  /\ srv_process' = NoProcess
  /\ hpc' = "stop_status"
  /\ UNCHANGED <<srv_status, proc, hresp, runs, stops, mpc, msg_on>>
  /\ UNCHANGED notServer

\* bot_status['running'] = False and the answer 200
StopBotStatus ==
  /\ hpc = "stop_status"
  /\ srv_status' = [srv_status EXCEPT !.running = FALSE]
  /\ hresp' = "stopped"
  /\ hpc' = "idle"
  /\ UNCHANGED <<srv_process, proc, runs, stops, mpc, msg_on>>
  /\ UNCHANGED notServer

\* The subprocess ends by itself.
ProcExit(k) ==
  /\ proc[k] = "alive"
  /\ proc' = [proc EXCEPT ![k] = "exited"]
  /\ UNCHANGED <<srv_status, srv_process, hpc, hresp, runs, stops, mpc, msg_on>>
  /\ UNCHANGED notServer

\* while bot_process ...: the first read of the global
MonTest(k) ==
  /\ mpc[k] = "test"
  /\ mpc' = [mpc EXCEPT ![k] = IF srv_process # NoProcess THEN "poll"
                                                          ELSE "ended"]
  /\ UNCHANGED <<srv_status, srv_process, proc, hpc, hresp, runs, stops, msg_on>>
  /\ UNCHANGED notServer

\* ... and bot_process.poll() is None: the global is read again; None has
\* no poll and the AttributeError ends the thread. While the subprocess
\* runs, the thread sleeps 2 s and tests again.
MonPoll(k) ==
  /\ mpc[k] = "poll"
  /\ mpc' = [mpc EXCEPT ![k] =
               IF srv_process = NoProcess THEN "dead"
               ELSE IF proc[srv_process] = "alive" THEN "test"
               ELSE "ended"]
  /\ UNCHANGED <<srv_status, srv_process, proc, hpc, hresp, runs, stops, msg_on>>
  /\ UNCHANGED notServer

\* A variant that leaves bot_status['running'] as it is after the loop.
MonEnd_keeps(k) ==
  /\ mpc[k] = "ended"
  /\ mpc' = [mpc EXCEPT ![k] = "message"]
  /\ UNCHANGED <<srv_status, srv_process, proc, hpc, hresp, runs, stops, msg_on>>
  /\ UNCHANGED notServer

\* bot_status['running'] = False  after the loop
MonEnd(k) ==
  /\ mpc[k] = "ended"
  /\ srv_status' = [srv_status EXCEPT !.running = FALSE]
  /\ mpc' = [mpc EXCEPT ![k] = "message"]
  /\ UNCHANGED <<srv_process, proc, hpc, hresp, runs, stops, msg_on>>
  /\ UNCHANGED notServer

\* if bot_process: bot_status['error_message'] = 'Bot process ended'
MonMessage(k) ==
  /\ mpc[k] = "message"
  /\ IF srv_process # NoProcess
       THEN /\ srv_status' = [srv_status EXCEPT
                                !.error_message = "Bot process ended"]
            /\ msg_on' = proc[srv_process]
       ELSE UNCHANGED <<srv_status, msg_on>>
  /\ mpc' = [mpc EXCEPT ![k] = "done"]
  /\ UNCHANGED <<srv_process, proc, hpc, hresp, runs, stops>>
  /\ UNCHANGED notServer

\* the statements of a request that has begun
HandlerStep ==
  \/ RunBotPopen
  \/ RunBotSetRunning
  \/ RunBotClearError
  \/ RunBotSpawn
  \/ StopBotTerminate
  \/ StopBotClear
  \/ StopBotStatus

\* the statements of one monitor_bot thread
MonStep(k) == MonTest(k) \/ MonPoll(k) \/ MonEnd(k) \/ MonMessage(k)

ServerNext ==
  \/ RunBotTest
  \/ RunBotPopen
  \/ RunBotSetRunning
  \/ RunBotClearError
  \/ RunBotSpawn
  \/ StopBotTest
  \/ StopBotTerminate
  \/ StopBotClear
  \/ StopBotStatus
  \/ \E k \in ProcIds : ProcExit(k)
  \/ \E k \in ProcIds : MonTest(k)
  \/ \E k \in ProcIds : MonPoll(k)
  \/ \E k \in ProcIds : MonEnd(k)
  \/ \E k \in ProcIds : MonMessage(k)

Init == InitMonitor /\ InitCaptcha /\ InitApp /\ InitBot /\ InitServer

Next ==
  \/ BeginCycle
  \/ CheckUrl
  \/ Backoff
  \/ CheckCases
  \/ SelectCheckbox
  \/ ClickConfirm
  \/ IntervalSleep
  \/ RecoverySleep
  \/ Interrupt

Spec == Init /\ [][Next]_vars

CaptchaSpec == Init /\ [][CaptchaNext]_vars

AppSpec == Init /\ [][AppNext]_vars

StartSpec == Init /\ [][StartNext]_vars

BotSpec == Init /\ [][BotNext]_vars

ServerSpec == Init /\ [][ServerNext]_vars

\* The server thread and every monitor_bot thread are threads of the
\* interpreter and keep being scheduled: a request that has begun and a
\* monitor that has been started take their next step. Requests arrive, and
\* the subprocess ends, as they please.
ServerFairSpec ==
  /\ Init /\ [][ServerNext]_vars
  /\ WF_vars(HandlerStep)
  /\ \A k \in ProcIds : WF_vars(MonStep(k))

\* ==================================================== claims on the monitor
LastEvent(ev) == IF ev = <<>> THEN "none" ELSE ev[Len(ev)]
Happened(e) == CountOf(e, events) > 0

\* the checkboxes selected now that were not when the page loaded
NewlySelected ==
  Cardinality({i \in 1..Len(boxes) : boxes[i] /\ ~boxes0[i]})

\* clicks on a case checkbox or its label that went through in this cycle
CheckboxClicks == CountOf("click_label", events) + CountOf("click_input", events)
\* clicks on the confirm button that went through in this cycle
ConfirmClicks ==
  CountOf("click_confirm", events) + CountOf("js_click_confirm", events)

SelectedAlready ==
  /\ sel_ret # Unset
  /\ sel_exc \notin {"find", "is_selected"}
  /\ Len(boxes0) > 0
  /\ boxes0[1]

\* C3 as stated: on an already selected checkbox select_first_checkbox
\* clicks nothing, leaves the checkboxes as they are and returns 0.
C3_Original ==
  SelectedAlready =>
    /\ CheckboxClicks = 0
    /\ boxes = boxes0
    /\ sel_ret = PyInt(0)

\* C3 amended: on an already selected checkbox select_first_checkbox clicks
\* nothing, leaves the checkboxes as they are and returns 1 (the checkbox
\* counts as selected, and the caller goes on to confirm).
C3_Amended ==
  SelectedAlready =>
    /\ CheckboxClicks = 0
    /\ ~Happened("scroll_checkbox")
    /\ boxes = boxes0
    /\ sel_ret = PyInt(1)
    /\ pc \in {"confirm", "interval_sleep", "loop", "stopped"}
    /\ (pc # "confirm" => Happened("call_click_confirm") \/ pc = "stopped")

\* C3 witness: the first checkbox was selected when the page loaded and the
\* monitor is about to confirm.
C3_Witness ==
  /\ SelectedAlready
  /\ pc = "confirm"
  /\ sel_exc = "none"

OuterExceptions == {"get_raised", "url_raised"}

C9_Original ==
  (pc = "loop" /\ Happened("on_login_page"))
    => CountOf("call_login", events) = 1

\* C9 amended: a cycle that finds the login address does not call login,
\* with or without credentials: it waits 10 s for a manual login and is back
\* at the top of the loop, where the next cycle navigates to the application
\* address again.
C9_Amended ==
  Happened("on_login_page") =>
    /\ CountOf("call_login", events) = 0
    /\ pc \in {"backoff", "loop", "stopped"}
    /\ pc = "loop" =>
         events = <<"get", "settle", "on_login_page", "sleep10">>
    /\ (pc = "loop" /\ cycle_count < MaxCycles) => ENABLED BeginCycle

\* C9 witness: a cycle found the login address, waited and is at the top of
\* the loop.
C9_Witness ==
  /\ pc = "loop"
  /\ Happened("on_login_page")
  /\ InUrl("login", url)
  /\ cycle_count < MaxCycles

\* C10: after a cycle found the login address, the next navigation comes
\* only after the 10 s wait.
C10_BackoffBeforeNavigation ==
  [][ (cycle_count' = cycle_count + 1 /\ Happened("on_login_page"))
        => LastEvent(events) = "sleep10" ]_vars

\* C10 witness: a navigation that came after the wait of a cycle that had
\* found the login address.
C10_Witness ==
  /\ prev_end = "sleep10"
  /\ pc = "check_url"
  /\ events = <<"get", "settle">>

\* the first checkbox of b that is not selected, 0 = none
FirstPending(b) == IndexOf(FALSE, b)

\* C24: in a cycle whose page has an unselected checkbox and in which
\* select_first_checkbox met no exception and reported a selection, exactly
\* one checkbox that was unselected has become selected, it is the first
\* unselected one in row order, and the confirm action was attempted.
C24_FirstPendingSelected ==
  ( /\ pc = "interval_sleep"
    /\ sel_ret = PyInt(1)
    /\ sel_exc = "none"
    /\ FirstPending(boxes0) > 0 )
  => /\ NewlySelected = 1
     /\ boxes[FirstPending(boxes0)]
     /\ Happened("call_click_confirm")

\* C35: whatever select_first_checkbox returned is the integer 0 or the
\* integer 1, on every path through it, so that selected_count > 0 can be
\* evaluated.
C35_ReturnsZeroOrOne ==
  sel_ret # Unset => (IsInt(sel_ret) /\ sel_ret.val \in {0, 1})

\* C36: in a cycle whose address check found the login address no checkbox
\* is enumerated, counted or selected and no confirm is clicked, and no
\* step of that cycle nor the start of the next one changes
\* last_case_count.
C36_LoginCycleLeavesCases ==
  /\ [](Happened("on_login_page") =>
          /\ boxes = <<>> /\ boxes0 = <<>>
          /\ cur_obs = -1
          /\ sel_ret = Unset
          /\ CheckboxClicks = 0 /\ ConfirmClicks = 0
          /\ ~Happened("call_click_confirm"))
  /\ [][(Happened("on_login_page") \/ Happened("on_login_page")')
         => last_case_count' = last_case_count]_vars

\* C36 witness: a cycle on the login address has ended with its wait while
\* a count of two cases is remembered from an earlier cycle.
C36_Witness ==
  /\ pc = "loop"
  /\ Happened("on_login_page")
  /\ LastEvent(events) = "sleep10"
  /\ last_case_count = 2

\* ------------------------------------------------------------------------
\* Claims on read_captcha_from_canvas (CaptchaSpec)

\* C1 as stated: what read_captcha_from_canvas returns is None or a string
\* of exactly four characters, and the whole-image extraction hands back
\* only a result of exactly that length.
C1_Original ==
  /\ cap_ret.kind = "str" => Len(cap_ret.val) = 4
  /\ extracted.kind = "str" => Len(extracted.val) = 4

\* C1 as the code has it: what read_captcha_from_canvas returns is None or
\* a string of at least MinCaptchaLen characters that str.isdigit accepts; the whole-image
\* extraction hands back the result of the first OCR configuration that has
\* at least MinCaptchaLen digits: never a shorter one, and no configuration
\* with such a result is passed over.
C1_Amended ==
  /\ cap_ret.kind = "str" =>
       /\ Len(cap_ret.val) >= MinCaptchaLen
       /\ \A i \in 1..Len(cap_ret.val) : cap_ret.val[i] \in DigitChars
  /\ extracted.kind = "str" =>
       /\ Len(extracted.val) >= MinCaptchaLen
       /\ \A i \in 1..Len(extracted.val) : extracted.val[i] \in DigitChars
  /\ ~missed

\* C1 witness: a whole-image strategy returned a three-digit text that a
\* later OCR configuration read after an earlier one had failed.
C1_Witness ==
  /\ cpc = "done"
  /\ strat < NumStrategies
  /\ cfg >= 2
  /\ cap_ret.kind = "str"
  /\ Len(cap_ret.val) = 3
  /\ extracted = cap_ret

\* the greatest element of a set of naturals, 0 for the empty set
MaxOf(S) == IF S = {} THEN 0 ELSE CHOOSE x \in S : \A y \in S : y <= x

\* C29: what is kept and returned is the candidate of the highest
\* confidence computed: in strategy 5 best_confidence is the greatest
\* confidence of the channels read so far and best_result a result of that
\* many digits, which read_captcha_from_canvas returns; in the whole-image
\* strategies no accepted result was passed over for a later one.
C29_BestCandidateReturned ==
  /\ best_confidence = MaxOf(seen_confs)
  /\ seen_confs # {} <=> best_result.kind = "str"
  /\ best_result.kind = "str" => Len(best_result.val) = MaxOf(seen_confs)
  /\ (cpc = "done" /\ seen_confs # {}) =>
       /\ cap_ret = best_result
       /\ \A c \in seen_confs : c <= Len(cap_ret.val)
  /\ ~missed

\* C29 witness: the channels of strategy 5 gave a result of three digits
\* and one of four, and the one of four digits was returned.
C29_Witness ==
  /\ cpc = "done"
  /\ seen_confs = {3, 4}
  /\ cap_ret.kind = "str"
  /\ Len(cap_ret.val) = 4

\* the strategies in the order of the list
InOrder(t) == \A i \in 1..Len(t) : t[i] = i

\* C30 as stated: the strategies are called in the order 1 to 5, strategy 5
\* only after 1 to 4 were called and none gave an accepted code, and None
\* is returned only after all five were called.
C30_Original ==
  /\ InOrder(tried)
  /\ (Len(tried) = NumStrategies /\ cpc # "done") => cap_ret = UnsetText
  /\ (cpc = "done" /\ cap_ret = NoText) => Len(tried) = NumStrategies

\* C30 as the code has it: the strategies are called in the order 1 to 5,
\* strategy 5 only after 1 to 4 were called and none gave an accepted code;
\* a strategy that raises is followed by the next one; None is returned
\* either before any strategy is called (no CAPTCHA element was found, or
\* the scroll or the screenshot raised) or after all five were called.
C30_Amended ==
  /\ InOrder(tried)
  /\ (Len(tried) = NumStrategies /\ cpc # "done") => cap_ret = UnsetText
  /\ (cpc = "done" /\ cap_ret = NoText) =>
       (tried = <<>> \/ Len(tried) = NumStrategies)
  /\ (cpc = "done" /\ tried = <<>>) => cap_ret = NoText
  /\ (cpc = "done" /\ cap_ret.kind = "str") =>
       (strat = Len(tried) /\ ReturnAccepts(cap_ret))
  /\ sraised => (cpc = "done" => Len(tried) = NumStrategies \/ cap_ret.kind = "str")

\* C30 witness: strategy 1 raised, the strategies after it were called and
\* strategy 5 gave the code that was returned.
C30_Witness ==
  /\ cpc = "done"
  /\ sraised
  /\ tried = <<1, 2, 3, 4, 5>>
  /\ cap_ret.kind = "str"

\* C31 as stated: in segmented mode the joined digits of a channel are
\* discarded unless their number is the required length of four, so that
\* _process_image_strategy_5 never returns a text of fewer or more digits.
C31_Original ==
  /\ best_result.kind = "str" => Len(best_result.val) = 4
  /\ \A c \in seen_confs : c = 4

\* C31 as the code has it: the joined digits of a channel are discarded
\* unless there are at least MinCaptchaLen of them; a text of fewer digits
\* is never kept or returned by _process_image_strategy_5, one of more
\* digits is, and best_confidence is the number of digits of the text kept.
C31_Amended ==
  /\ best_result.kind = "str" =>
       /\ Len(best_result.val) >= MinCaptchaLen
       /\ Len(best_result.val) = best_confidence
  /\ best_result.kind # "str" => best_confidence = 0
  /\ \A c \in seen_confs : c >= MinCaptchaLen

\* C31 witness: all channels of strategy 5 were read and the one text kept
\* has three digits.
C31_Witness ==
  /\ cpc = "s5_channel"
  /\ ch > NumChannels
  /\ seen_confs = {3}
  /\ best_result.kind = "str"
  /\ Len(best_result.val) = 3

\* a sequence of numbers that never decreases
NonDecreasing(xs) == \A i \in 1..(Len(xs) - 1) : xs[i] <= xs[i + 1]

\* C32: the digits of a channel of strategy 5 are emitted from left to
\* right: each digit read so far has the x of the contour it was read from,
\* these x never decrease along the digits, and no contour still to be read
\* lies left of one that was read, whatever the contours found and whatever
\* OCR gave on each glyph, a glyph that gives no digit included.
C32_LeftToRight ==
  /\ Len(digit_xs) = Len(digits)
  /\ NonDecreasing(digit_xs \o dcont)

\* C32 witness: a channel is read to its end and gave three digits, from
\* contours at x = 0, x = 10 and x = 10.
C32_Witness ==
  /\ cpc = "s5_digit"
  /\ dcont = <<>>
  /\ Len(digits) = 3
  /\ digit_xs = <<0, 10, 10>>

\* C33: every code that read_captcha_from_canvas returns consists only of
\* the characters 0 to 9, whatever the raw OCR text was.
C33_OnlyAsciiDigits ==
  cap_ret.kind = "str" =>
    \A i \in 1..Len(cap_ret.val) : cap_ret.val[i] \in AsciiDigits

\* C34: the element chosen as the CAPTCHA graphic is displayed, is wider
\* than 30 and taller than 15, and is no match of the size of a full page
\* (1920 by 1080): such a match is passed over.
C34_SmallGraphicChosen ==
  canvas # NoCanvas =>
    /\ canvas.displayed
    /\ canvas.width > 30 /\ canvas.height > 15
    /\ ~(canvas.width >= 1920 /\ canvas.height >= 1080)

\* ------------------------------------------------------------------------
\* Claims on the control surface (AppSpec)

\* the threads inside continuous_monitor
LiveLoops == {i \in StartIds : tpc[i] = "monitor"}

\* C5: once api_stop has answered success, the loop of a thread spawned
\* before goes through no cycle beyond the one that was in progress: its
\* cycle_count is at most one above what it was at the answer.
C5_StopEndsLoop ==
  \A i \in StartIds : at_stop[i] >= 0 => tcycles[i] <= at_stop[i] + 1

\* C6: once api_stop has answered success, the browser session of a thread
\* spawned before is not open.
C6_StopReleasesSession ==
  \A i \in StartIds : at_stop[i] >= 0 => session[i] # "open"

\* C7: at most one thread is inside continuous_monitor at any time.
C7_OneLoop ==
  Cardinality(LiveLoops) <= 1

\* C14: no thread goes through a cycle of continuous_monitor on a bot
\* while api_run_once is inside run_automation_cycle on the same bot.
C14_NoConcurrentDriverUse ==
  [][ \A i \in StartIds :
        tcycles'[i] # tcycles[i] => ~(ropc = "cycle" /\ ro_bot = tself[i]) ]_vars

\* C20: api_start answers in the step that starts the thread, whatever the
\* threads are doing: the step waits for nothing, and at the answer the new
\* thread has created no bot, opened no browser and gone through no cycle.
C20_StartDoesNotBlock ==
  /\ [](\A i \in StartIds : spc[i] = "updated" => ENABLED StartSpawn(i))
  /\ [][ \A i \in StartIds :
           (start_ret[i] = "none" /\ start_ret'[i] = "success") =>
             /\ tpc[i] = "none"
             /\ tpc'[i] = "spawned"
             /\ session'[i] = "none"
             /\ tcycles'[i] = 0 ]_vars
  /\ [](\A i \in StartIds : tpc[i] # "none" => start_ret[i] = "success")

\* C20 witness: the second request was answered while the thread of the
\* first is inside continuous_monitor after its last followed cycle, and
\* the thread of the second has not run yet.
C20_Witness ==
  /\ start_ret[1] = "success"
  /\ tpc[1] = "monitor"
  /\ tcycles[1] = MaxLoopCycles
  /\ start_ret[2] = "success"
  /\ tpc[2] = "spawned"

\* C23: a monitoring loop whose cycle failed on the driver has ended: the
\* thread makes no further cycle after it (and leaves through the handler
\* of run_forum_bot, the one place that reports an error of the thread).
C23_DriverFailureEndsLoop ==
  [][ \A i \in StartIds :
        tlast[i] = "raised" => tcycles'[i] = tcycles[i] ]_vars

\* C25: while a thread runs, a successful auto-login has set login_status
\* to True, and a cycle of its monitor that found the login page has left
\* an error message in the status record.
C25_AuthReported ==
  \A i \in StartIds :
    /\ (tpc[i] \in {"navigated", "monitor"} /\ tauth[i] = "success") =>
         bot_status.login_status
    /\ (tpc[i] = "monitor" /\ tlast[i] = "login") =>
         bot_status.error_message # "None"

\* the browser sessions that are open
OpenSessions == {i \in StartIds : session[i] = "open"}

\* C37: whatever requests the control surface has served, at most one
\* browser session is open.
C37_AtMostOneSession == Cardinality(OpenSessions) <= 1

\* ------------------------------------------------------------------------
\* Claims on login and api_run_once (BotSpec)

BHappened(e) == CountOf(e, bev) > 0
\* e is in bev, and every x of before is in bev ahead of its first e
BAfterAll(e, before) ==
  \A x \in before : IndexOf(x, bev) > 0 /\ IndexOf(x, bev) < IndexOf(e, bev)
\* what login does to the form
FieldEvents == {"clear_username", "type_username", "clear_password",
                "type_password", "clear_code", "type_code"}
FormTouched == \E i \in 1..Len(bev) : bev[i] \in FieldEvents
Submitted == BHappened("click_signin") \/ BHappened("click_signin_raised")
\* clicks on the confirm button that went through
ConfirmClicksIn(ev) ==
  CountOf("click_confirm", ev) + CountOf("js_click_confirm", ev)

\* C11: when the address after the navigation of login is that of the
\* authenticated application, login returns True and neither fills nor
\* submits the form.
C11_IdempotentWhenAuthenticated ==
  (bpc = "done" /\ BHappened("get_login") /\ LoginSucceeded(bnav))
    => (bret = "True" /\ ~FormTouched /\ ~Submitted)

\* C12 as stated: the manual prompt is reached only after automatic
\* resolution has failed: at least one and at most three attempts, each
\* followed by one refresh.
C12_Original ==
  BHappened("prompt") =>
    /\ CountOf("read_captcha", bev) >= 1
    /\ CountOf("read_captcha", bev) <= 3
    /\ CountOf("refresh_captcha", bev) = CountOf("read_captcha", bev)

\* C12 as the code has it: login makes no resolution attempt and no
\* refresh; without a code it prompts right after the password is typed.
C12_Amended ==
  /\ ~BHappened("read_captcha")
  /\ ~BHappened("refresh_captcha")
  /\ BHappened("prompt") =>
       bev[IndexOf("prompt", bev) - 1] = "type_password"

\* C12 witness: login without a code took a code at its prompt.
C12_Witness ==
  /\ bpc = "enter_code"
  /\ BHappened("prompt")
  /\ bcode.kind = "str"

\* C13: a code shorter than three characters, typed at the prompt or given
\* as verification_code (not empty, as api_complete_login passes it), is
\* never typed into the code field nor submitted, and login returns False.
C13_ShortCodeRejected ==
  (bcode.kind = "str" /\ bcode.val # <<>> /\ Len(bcode.val) < 3)
    => /\ ~BHappened("type_code")
       /\ ~Submitted
       /\ bpc = "done" => bret = "False"

\* the three fields of the login form
FieldRoles == {"username", "password", "verification"}
\* every x of before is in bev ahead of position i
AllAhead(before, i) ==
  \A x \in before : IndexOf(x, bev) > 0 /\ IndexOf(x, bev) < i

\* C15: in login the three fields are located before anything is typed,
\* the credentials are typed before the code is obtained and entered, the
\* code is entered before the sign-in button is looked for and clicked, and
\* the address is read only after the click.
C15_LoginOrder ==
  /\ \A i \in 1..Len(bev) :
       /\ bev[i] \in FieldEvents =>
            AllAhead({"found_username", "found_password",
                      "found_verification"}, i)
       /\ bev[i] \in {"prompt", "clear_code", "type_code"} =>
            AllAhead({"type_username", "type_password"}, i)
       /\ bev[i] = "clear_code" /\ BHappened("prompt") =>
            AllAhead({"prompt"}, i)
       /\ bev[i] \in {"found_signin", "click_signin", "click_signin_raised"} =>
            AllAhead({"type_code"}, i)
       /\ bev[i] = "read_url" => AllAhead({"click_signin"}, i)
  /\ (BHappened("get_login") /\ bret = "True") => BHappened("read_url")

\* C15 witness: a login that prompted for the code went through all the
\* steps and read the address.
C15_Witness ==
  /\ bpc = "done"
  /\ BHappened("prompt")
  /\ BHappened("read_url")

\* C16: when the username, the password or the verification field is not
\* found, login has looked for it once, returns False, has typed into no
\* field and has not looked for or clicked the sign-in button.
C16_MissingFieldFails ==
  \A role \in FieldRoles :
    BHappened("notfound_" \o role) =>
      /\ bpc = "done"
      /\ bret = "False"
      /\ LastEvent(bev) = "notfound_" \o role
      /\ CountOf("notfound_" \o role, bev) = 1
      /\ ~BHappened("found_" \o role)
      /\ ~FormTouched
      /\ ~BHappened("found_signin")
      /\ ~Submitted

\* C16 witness: the username and the password field were found, the
\* verification field was not.
C16_Witness ==
  /\ bev = <<"get_login", "found_username", "found_password",
             "notfound_verification">>
  /\ bret = "False"

\* C17: once login has read the address after the submit, it returns False
\* exactly when the address has "login" in it and not "MicrosoftForum".
C17_OutcomeByAddress ==
  BHappened("read_url") =>
    (bret = "False" <=> (InUrl("login", burl) /\ ~InUrl("MicrosoftForum", burl)))

\* C17 witness: after the click the address had neither "login" nor
\* "MicrosoftForum" in it, and login returned True.
C17_Witness ==
  /\ BHappened("click_signin")
  /\ BHappened("read_url")
  /\ burl = {}
  /\ bret = "True"

C19_RunOnceIsOneCycle ==
  /\ CountOf("cycle_start", bev) <= 1
  /\ ConfirmClicksIn(bev) <= 1
  /\ (bresp # "unset" /\ BHappened("cycle_start")) =>
       /\ bpc = "done"
       /\ bret # "unset"
       /\ bresp = bret
  /\ (bret # "unset" /\ BHappened("cycle_start") /\ bresp = "unset") =>
       bpc = "respond"

\* C19 witness: the cycle confirmed with the scripted click after the
\* direct one raised, and the request answered success.
C19_Witness ==
  /\ bpc = "done"
  /\ bresp = "True"
  /\ bret = "True"
  /\ BHappened("js_click_confirm")

\* C21: in login every field is cleared right before text is typed into
\* it, and once typed the field holds exactly the value given, whatever it
\* held when it was found.
C21_ClearedBeforeTyped ==
  /\ \A i \in 1..Len(bev) :
       /\ bev[i] = "type_username" => (i > 1 /\ bev[i - 1] = "clear_username")
       /\ bev[i] = "type_password" => (i > 1 /\ bev[i - 1] = "clear_password")
       /\ bev[i] = "type_code" => (i > 1 /\ bev[i - 1] = "clear_code")
  /\ BHappened("type_username") => bfield["username"] = Username
  /\ BHappened("type_password") => bfield["password"] = Password
  /\ BHappened("type_code") => bfield["verification"] = bcode.val

\* C21 witness: all three fields held stale text when they were found, and
\* login has typed the username, the password and the code.
C21_Witness ==
  /\ BHappened("stale_username")
  /\ BHappened("stale_password")
  /\ BHappened("stale_verification")
  /\ BHappened("type_code")
  /\ bpc = "signin"

\* C22: when the direct click on the sign-in button raises, login attempts
\* a scripted click on it, and fails because of the click only when the
\* scripted click raised as well.
C22_SubmitFallsBack ==
  BHappened("click_signin_raised") =>
    /\ BHappened("js_click_signin") \/ BHappened("js_click_signin_raised")
    /\ (bpc = "done" /\ bret = "False" /\ ~BHappened("read_url")) =>
         BHappened("js_click_signin_raised")

\* C26: the element a cascade resolves is displayed; for the sign-in
\* cascade of login: the button it hands to the click is never a hidden one.
C26_VisibleMatchWins ==
  BHappened("found_signin") => bsignin = "element"

\* the scroll-into-view that goes with each click
ScrollOf(click) ==
  IF click = "click_signin" THEN "scroll_signin"
  ELSE IF click = "click_confirm" THEN "scroll_confirm"
  ELSE "scroll_checkbox"

\* C27: every click on a located element (sign-in button, label of the
\* case checkbox, confirm button) comes right after the scroll-into-view of
\* that element and the settle delay.
C27_ScrollBeforeClick ==
  \A i \in 1..Len(bev) :
    bev[i] \in {"click_signin", "click_label", "click_confirm"} =>
      /\ i > 2
      /\ bev[i - 1] = "settle"
      /\ bev[i - 2] = ScrollOf(bev[i])

\* click_confirm was called and has returned
ConfirmReturned ==
  /\ bpc \in {"respond", "done"}
  /\ BHappened("found_confirm") \/ BHappened("notfound_confirm")

\* C28 as stated: click_confirm returns False only when no displayed and
\* enabled button is found or both clicks raise.
C28_Original ==
  ConfirmReturned =>
    (bret = "False" <=>
       (BHappened("notfound_confirm") \/ BHappened("js_click_confirm_raised")))

\* C28 as the code has it: a direct click that raises is followed by a
\* scripted click; click_confirm returns True when either click went
\* through, and False when no displayed and enabled button is found, when
\* the scroll-into-view of the button raises (no click is attempted then),
\* or when both clicks raise.
C28_Amended ==
  /\ \A i \in 1..Len(bev) :
       bev[i] = "click_confirm_raised" =>
         /\ i < Len(bev)
         /\ bev[i + 1] \in {"js_click_confirm", "js_click_confirm_raised"}
  /\ ConfirmReturned =>
       /\ ConfirmClicksIn(bev) = 1 <=> bret = "True"
       /\ bret = "False" <=>
            \/ BHappened("notfound_confirm")
            \/ BHappened("found_confirm") /\ ~BHappened("scroll_confirm")
            \/ BHappened("js_click_confirm_raised")

\* C28 witness: the direct click on the confirm button raised, the scripted
\* click went through and the cycle returned True.
C28_Witness ==
  /\ bpc = "respond"
  /\ BHappened("click_confirm_raised")
  /\ BHappened("js_click_confirm")
  /\ bret = "True"


\* ------------------------------------------------------------------------
\* Claims on simple_server (ServerSpec, ServerFairSpec)

\* C38: once a /stop-bot request has been answered and no other request has
\* begun, bot_status['running'] is False; and monitor_bot writes the message
\* 'Bot process ended' only about a subprocess that ended by itself: never
\* about one that /stop-bot terminated, and never about one that runs.
C38_StopRecordsNoError ==
  /\ (hresp = "stopped" /\ hpc = "idle") => ~srv_status.running
  /\ msg_on \in {"none", "exited"}

\* the subprocess that bot_process names has ended
CurrentEnded ==
  srv_process # NoProcess /\ proc[srv_process] \in {"exited", "terminated"}

\* C39: whenever the subprocess that bot_process names has ended,
\* bot_status['running'] is False then or later; and a /run-bot request that
\* finds bot_status['running'] True is answered 'Bot already running' at
\* once, with no subprocess and no monitor thread started and nothing of
\* the status changed.
C39_EndedShowsAndNoSecondStart ==
  /\ CurrentEnded ~> ~srv_status.running
  /\ [][(runs' = runs + 1 /\ srv_status.running)
         => /\ hresp' = "rejected" /\ hpc' = "idle"
            /\ UNCHANGED <<srv_status, srv_process, proc, mpc>>]_vars

\* C39 witness: the second /run-bot was rejected while the subprocess of
\* the first ran; that subprocess then ended by itself and its monitor
\* thread set running to False.
C39_Witness ==
  /\ hresp = "rejected"
  /\ proc = <<"exited", "none">>
  /\ mpc[1] = "done"
  /\ ~srv_status.running

=============================================================================
